---- MODULE Spec2Model ----
(***************************************************************************)
(* Model of netbench's receiver core (src/netbench.cpp): the framing       *)
(* protocol parser, the classic and shared-ring buffer providers and the   *)
(* buffer handling of the io_uring receive loop.                           *)
(***************************************************************************)
EXTENDS Integers, Sequences, FiniteSets, TLC

VARIABLES
    \* ---- ProtocolParser driven over one byte stream ----
    frames,          \* the frames the peer sends, in order
    parser,          \* ProtocolParser fields of the connection
    fed,             \* bytes of the stream handed to consume so far
    chunking,        \* how the calls so far cut the stream: "none", "whole", "parts"
    total,           \* ConsumeResults accumulated over the calls (operator+=)
    overread,        \* some call read at an offset >= n of its buffer
    bytewise,        \* sum of the results of feeding the stream one byte per call
    whole            \* result of one consume call on the whole stream

pvars == <<frames, parser, fed, chunking, total, overread, bytewise, whole>>

VARIABLES
    \* ---- BufferProviderV1 (classic provider) and the ring engine's use of it ----
    toProvide_,      \* the free list: a vector of Range {start, count}
    toProvideCount_, \* buffers returned and not yet provided
    lowWatermark_,   \* rx_cfg.provided_buffer_low_watermark
    compactCfg,      \* rx_cfg.provided_buffer_compact
    kernelBufs,      \* buffer ids provided to the kernel and not yet delivered
    returned,        \* history: ids handed to returnIndex and not yet provided
    phase            \* history of the provider calls: "other", "returning", "compacted"

v1vars == <<toProvide_, toProvideCount_, lowWatermark_, compactCfg, kernelBufs, returned, phase>>

VARIABLES
    \* ---- BufferProviderV2 (shared ring provider) under the ring engine ----
    tailCached_,     \* uint16_t tailCached_
    ringTail,        \* ring_->tail, as last stored with store-release
    prevTail,        \* history: the value ring_->tail held before the last store
    cachedIndices,   \* number of staged indices
    indices,         \* the staged indices, indices[0 .. cachedIndices)
    ringBufs,        \* ring_->bufs[]: the bid of each descriptor
    kernelHead       \* the kernel's head: descriptors consumed so far (16 bit)

v2vars == <<tailCached_, ringTail, prevTail, cachedIndices, indices, ringBufs, kernelHead>>

VARIABLES
    \* ---- IOUringRunner: accept, close and the loop ----
    fixedFiles,      \* rxCfg_.fixed_files
    nonblockAccept,  \* rxCfg_.supports_nonblock_accept
    multishot,       \* rxCfg_.multishot_recv, with a buffer provider
    recvmsg,         \* rxCfg_.recvmsg
    runState,        \* "running", "exited" (loop returned) or "died" (die was called,
                     \* or the process faulted)
    pc,              \* place in the loop body: "wait", "check" or "drain"
    shutdownFlag,    \* should_shutdown->load() || globalShouldShutdown.load()
    stopping,        \* bool stopping
    listenClosed,    \* ListenSock::closed of each listen socket
    acceptPending,   \* accept submissions of each listen socket without a handled completion
    nextAcceptIdx,   \* ListenSock::nextAcceptIdx
    acceptFdPool_,   \* the free stack of fixed-file indices
    conn,            \* the TSock objects
    socks_,          \* RunnerBase::socks_
    leaked,          \* history: fixed-file indices whose close completed with another result
    lastCqe,         \* history: the completion handled last and what the handler did
    checksAfterFlag  \* history: shutdown checks made by the loop with the flag set

rvars == <<fixedFiles, nonblockAccept, multishot, recvmsg, runState, pc, shutdownFlag, stopping, listenClosed,
           acceptPending, nextAcceptIdx, acceptFdPool_, conn, socks_, leaked, lastCqe,
           checksAfterFlag>>

VARIABLES
    \* ---- one connection of the ring engine: parser, owed reply, sends ----
    do_send,         \* BasicSock::do_send
    sends            \* history: the sends posted for the connection, in order

cvars == <<do_send, sends>>

\* the state of the engines, left alone by the specifications of the parser and
\* of the providers
VARIABLES
    \* ---- EPollRunner: one connection and the notifier ----
    batch_send,      \* rxCfg_.batch_send
    erun,            \* "running" or "exited": the loop of EPollRunner
    epc,             \* place in the loop body: "wait", "dispatch" or "drain"
    alive,           \* the EPollData of the connection is in sockets_
    to_write,        \* EPollData::to_write
    write_in_epoll,  \* EPollData::write_in_epoll
    armed,           \* the notifier has EPOLLOUT in the connection's event mask
    queued,          \* the connection is in write_queue
    sockRoom,        \* bytes the socket takes before send returns EAGAIN
    lastWrite        \* history: how the last doWrite ended

evars == <<batch_send, erun, epc, alive, to_write, write_in_epoll, armed, queued, sockRoom,
           lastWrite>>

VARIABLES
    \* ---- the buffer of a recv completion, in processRead ----
    lastRecv         \* history: the buffer id of the completion handled last and
                     \* the number of returnIndex calls made for it

bvars == <<lastRecv>>

VARIABLES
    \* ---- BufferProviderV2 next to the kernel, one store at a time ----
    cq,              \* completions the kernel posted and the engine has not handled:
                     \* the descriptor each took from the ring
    flush            \* the write loop of returnIndex: the staged index and the field
                     \* of the descriptor written next

fvars == <<cq, flush>>

VARIABLES
    \* ---- the completion queue of the ring and the loop's drain of it ----
    cqTail,          \* *ring.cq.ktail: completions the kernel has posted
    cqHead,          \* *ring.cq.khead: completions the engine has marked seen
    cqe_count,       \* int cqe_count of the loop body
    seen             \* history: how often each completion was passed to processCqe

qvars == <<cqTail, cqHead, cqe_count, seen>>

VARIABLES
    \* ---- the readiness engine with several connections ----
    sockets_,        \* EPollRunner::sockets_: the EPollData allocated, by address
    eds,             \* the EPollData at each address: to_write and write_in_epoll
    events,          \* the events of this epoll_wait still to be dispatched
    write_queue,     \* write_queue of EPollRunner::loop
    iter             \* history of this loop iteration: doWrite calls per address,
                     \* the addresses queued, deleted, and used after their delete,
                     \* and the event dispatched last

wvars == <<sockets_, eds, events, write_queue, iter>>

VARIABLES
    \* ---- mkIoUring: the sizes of the ring ----
    sqe_count,       \* IoUringRxConfig::sqe_count
    cfg_cqe_count,   \* IoUringRxConfig::cqe_count
    cq_entries       \* params.cq_entries passed to io_uring_queue_init_params;
                     \* 0 before mkIoUring

uvars == <<sqe_count, cfg_cqe_count, cq_entries>>

VARIABLES
    \* ---- RxStats; time in whole seconds ----
    sinceStats,      \* now - lastStats_
    loops_,          \* RxStats::loops_
    overflows_,      \* RxStats::overflows_
    idle_,           \* RxStats::idle_
    reads_,          \* RxStats::reads_
    countReads_,     \* RxStats::countReads_
    requestsRx_,     \* RunnerBase::requestsRx_, passed to doneLoop as requests
    lastRequests_,   \* RxStats::lastRequests_
    lastRps_,        \* RxStats::lastRps_
    lastLoop         \* history: what the doneLoop call just made did

svars == <<sinceStats, loops_, overflows_, idle_, reads_, countReads_, requestsRx_,
           lastRequests_, lastRps_, lastLoop>>

engvars == <<rvars, cvars, evars, bvars, fvars, qvars, wvars, uvars, svars>>

vars == <<pvars, v1vars, v2vars, engvars>>

----------------------------------------------------------------------------
(* Bounds of the model *)

MaxFrames == 2
MaxLen == 2
MaxReply == 1
MaxByte == 1
PoolCount == 5
ProvidedBufferCount == 6
SharedRingCount == 33
NumListen == 2
MaxConns == 2
FixedFileCount == 3
MaxSocks == 3
MaxSendsOut == 1
MaxCqes == 4
MaxEds == 2
MaxEvents == 2
MaxOwedEach == 1
MaxSqe == 2
MaxCfgCqe == 258
MaxSeconds == 2
MaxRequests == 3
MaxLoops == 3
MaxReadsPerLoop == 1
MaxOwed == 3
SockBuf == 2
RcvBuffSize == 2
FineRingCount == 35
MaxTakes == 100

(* Program constants *)

HeaderSize == 8
IndicesSize == 32
Uint16 == 65536
EIO == 5
EBADF == 9
EMFILE == 24
ECONNRESET == 104
ENOBUFS == 105
CqPerSqe == 128
Millis == 1000

----------------------------------------------------------------------------
(* Bytes, frames and the wire encoding (little-endian 32-bit words) *)

Byte == 0..MaxByte

\* a byte of storage that was never written
Uninit == -1

Min(a, b) == IF a < b THEN a ELSE b

LE32(x) == << x % 256, (x \div 256) % 256, (x \div 65536) % 256, (x \div 16777216) % 256 >>

\* memcpy(&is_reading, src, 8) on a little-endian host
DecodeHeader(b) ==
    << b[1] + 256 * b[2] + 65536 * b[3] + 16777216 * b[4],
       b[5] + 256 * b[6] + 65536 * b[7] + 16777216 * b[8] >>

\* payload bytes are opaque to the protocol: one value stands for them
Payload(l) == [i \in 1..l |-> 0]

FrameSet ==
    { [length |-> l, reply_size |-> r, payload |-> Payload(l)] :
        l \in 0..MaxLen, r \in 0..MaxReply }

FrameSeqs == UNION { [1..k -> FrameSet] : k \in 1..MaxFrames }

FrameBytes(f) == LE32(f.length) \o LE32(f.reply_size) \o f.payload

RECURSIVE Stream(_)
Stream(fs) == IF fs = <<>> THEN <<>> ELSE FrameBytes(Head(fs)) \o Stream(Tail(fs))

\* offset in the stream just after the last byte of frame i
RECURSIVE FrameEnd(_, _)
FrameEnd(fs, i) == IF i = 0 THEN 0 ELSE FrameEnd(fs, i - 1) + HeaderSize + fs[i].length

\* frames whose last byte lies within the first k bytes of the stream
FramesEndedBy(fs, k) == { i \in 1..Len(fs) : FrameEnd(fs, i) <= k }

RECURSIVE SumReplies(_, _)
SumReplies(fs, S) ==
    IF S = {} THEN 0
    ELSE LET i == CHOOSE x \in S : TRUE
         IN fs[i].reply_size + SumReplies(fs, S \ {i})

----------------------------------------------------------------------------
(* ProtocolParser *)

NoResults == [to_write |-> 0, count |-> 0]

AddResults(a, b) == [to_write |-> a.to_write + b.to_write, count |-> a.count + b.count]

\* a freshly constructed parser: size_buff has no initializer
NewParser ==
    [size_buff_have |-> 0,
     is_reading     |-> <<0, 0>>,
     size_buff      |-> [i \in 1..HeaderSize |-> Uninit],
     so_far         |-> 0]

\* what reading k bytes at data + off can yield when the caller's buffer holds
\* Len(data) bytes: the buffer's bytes inside it, any bytes beyond it
ReadBytes(data, off, k) ==
    IF off + k <= Len(data)
    THEN { [i \in 1..k |-> data[off + i]] }
    ELSE { [i \in 1..k |-> IF off + i <= Len(data) THEN data[off + i] ELSE j[i]] :
             j \in [1..k -> Byte] }

\* the values never-written bytes of size_buff can turn out to hold
Resolve(sb) ==
    IF \A i \in 1..HeaderSize : sb[i] # Uninit
    THEN { sb }
    ELSE { [i \in 1..HeaderSize |-> IF sb[i] # Uninit THEN sb[i] ELSE j[i]] :
             j \in [1..HeaderSize -> Byte] }

\* lines 270-283: assemble the header when none is decoded yet
ReadHeader(p, data, off, n) ==
    IF p.is_reading[1] # 0 THEN {p}
    ELSE IF n >= HeaderSize /\ p.size_buff_have = 0
    THEN { [p EXCEPT !.size_buff_have = HeaderSize, !.is_reading = DecodeHeader(b)] :
             b \in ReadBytes(data, off, HeaderSize) }
    ELSE LET add  == Min(n, HeaderSize - p.size_buff_have)
             have == p.size_buff_have + add
         IN UNION {
              LET sb == [i \in 1..HeaderSize |->
                           IF i > p.size_buff_have /\ i <= have
                           THEN b[i - p.size_buff_have] ELSE p.size_buff[i]]
              IN IF have >= HeaderSize
                 THEN { [p EXCEPT !.size_buff_have = have, !.size_buff = r,
                                  !.is_reading = DecodeHeader(r)] : r \in Resolve(sb) }
                 ELSE { [p EXCEPT !.size_buff_have = have, !.size_buff = sb] }
              : b \in ReadBytes(data, off, add) }

\* bytes the header step reads at data + off
HeaderReadLen(p, n) ==
    IF p.is_reading[1] # 0 THEN 0
    ELSE IF n >= HeaderSize /\ p.size_buff_have = 0 THEN HeaderSize
    ELSE Min(n, HeaderSize - p.size_buff_have)

\* the while loop of consume: off is data's distance from the buffer start
RECURSIVE ConsumeLoop(_, _, _, _, _, _)
ConsumeLoop(p, data, off, n, ret, over) ==
    IF n = 0 THEN { [parser |-> p, ret |-> ret, overread |-> over] }
    ELSE LET p1    == [p EXCEPT !.so_far = @ + n]   \* uint32; far from 2^32 for the streams modelled
             rlen  == HeaderReadLen(p1, n)
             over1 == over \/ (rlen > 0 /\ off + rlen > Len(data))
         IN UNION {
              IF q.is_reading[1] # 0 /\ q.so_far >= q.is_reading[1] + HeaderSize
              THEN ConsumeLoop(
                     [q EXCEPT !.so_far = 0, !.size_buff_have = 0, !.is_reading = <<0, 0>>],
                     data,
                     off + n,
                     q.so_far - (q.is_reading[1] + HeaderSize),
                     [to_write |-> ret.to_write + q.is_reading[2], count |-> ret.count + 1],
                     over1)
              ELSE { [parser |-> q, ret |-> ret, overread |-> over1] }
              : q \in ReadHeader(p1, data, off, n) }

\* ProtocolParser::consume(data, n) with n = Len(data): every outcome it can have
consume(p, data) == ConsumeLoop(p, data, 0, Len(data), NoResults, FALSE)

----------------------------------------------------------------------------
(* Driving one parser over the stream *)

\* the shared ring provider is not part of this specification
V2Idle ==
    /\ tailCached_ = 0
    /\ ringTail = 0
    /\ prevTail = 0
    /\ cachedIndices = 0
    /\ indices = <<>>
    /\ ringBufs = <<>>
    /\ kernelHead = 0

NoCall == [to_write |-> -1, count |-> -1]

\* the parser is not part of this specification
ParserIdle ==
    /\ frames = <<>>
    /\ parser = NewParser
    /\ fed = 0
    /\ chunking = "none"
    /\ total = NoResults
    /\ overread = FALSE
    /\ bytewise = NoCall
    /\ whole = NoCall

\* the buffer provider is not part of this specification
V1Idle ==
    /\ toProvide_ = <<>>
    /\ toProvideCount_ = 0
    /\ lowWatermark_ = 0
    /\ compactCfg = FALSE
    /\ kernelBufs = {}
    /\ returned = {}
    /\ phase = "other"

\* a TSock that does not exist (yet, or any more)
NoFd == -1

NoSock == [st |-> "none", fd |-> NoFd, reads |-> 0, sends |-> 0, freedBy |-> "none", closeRes |-> 0]

NoCqe == [kind |-> "none", who |-> 0, res |-> 0, fd |-> NoFd, pushed |-> FALSE,
          more |-> FALSE, amount |-> 0, posted |-> FALSE]

\* the ring engine is not part of this specification
RingIdle ==
    /\ fixedFiles = FALSE
    /\ nonblockAccept = FALSE
    /\ multishot = FALSE
    /\ recvmsg = FALSE
    /\ runState = "exited"
    /\ pc = "wait"
    /\ shutdownFlag = FALSE
    /\ stopping = FALSE
    /\ listenClosed = <<>>
    /\ acceptPending = <<>>
    /\ nextAcceptIdx = <<>>
    /\ acceptFdPool_ = <<>>
    /\ conn = <<>>
    /\ socks_ = 0
    /\ leaked = {}
    /\ lastCqe = NoCqe
    /\ checksAfterFlag = 0

\* no connection is followed in this specification
ConnIdle ==
    /\ do_send = NoResults
    /\ sends = <<>>

\* no doWrite was called yet
NoWrite == [how |-> "none", ctl |-> "none"]

\* the readiness engine is not part of this specification
EPollIdle ==
    /\ batch_send = FALSE
    /\ erun = "exited"
    /\ epc = "wait"
    /\ alive = FALSE
    /\ to_write = 0
    /\ write_in_epoll = FALSE
    /\ armed = FALSE
    /\ queued = FALSE
    /\ sockRoom = 0
    /\ lastWrite = NoWrite

\* no recv completion was handled yet
NoRecv == [bid |-> NoFd, returns |-> 0]

RecvIdle == lastRecv = NoRecv

\* returnIndex is not in its write loop
NoFlush == [k |-> 0, field |-> "none"]

FineIdle == cq = <<>> /\ flush = NoFlush

\* the completion queue is not part of this specification
CqIdle ==
    /\ cqTail = 0
    /\ cqHead = 0
    /\ cqe_count = 0
    /\ seen = <<>>

\* the readiness engine with several connections is not part of this specification
MultiIdle ==
    /\ sockets_ = {}
    /\ eds = <<>>
    /\ events = <<>>
    /\ write_queue = <<>>
    /\ iter = <<>>

\* no call of doneLoop yet, or something happened since the last one
NoLoop == [flushed |-> FALSE, emitted |-> FALSE, grew |-> FALSE, rps |-> 0, loops |-> 0,
           samples |-> 0]

\* the creation of the ring is not part of this specification
SetupIdle ==
    /\ sqe_count = 0
    /\ cfg_cqe_count = 0
    /\ cq_entries = 0

\* the statistics recorder is not part of this specification
StatsIdle ==
    /\ sinceStats = 0
    /\ loops_ = 0
    /\ overflows_ = 0
    /\ idle_ = 0
    /\ reads_ = <<>>
    /\ countReads_ = FALSE
    /\ requestsRx_ = 0
    /\ lastRequests_ = 0
    /\ lastRps_ = 0
    /\ lastLoop = NoLoop

EngIdle ==
    /\ RingIdle
    /\ ConnIdle
    /\ EPollIdle
    /\ RecvIdle
    /\ FineIdle
    /\ CqIdle
    /\ MultiIdle
    /\ SetupIdle
    /\ StatsIdle

ParserInit ==
    /\ frames \in FrameSeqs
    /\ parser = NewParser
    /\ fed = 0
    /\ chunking = "none"
    /\ total = NoResults
    /\ overread = FALSE
    /\ bytewise = NoCall
    /\ whole = NoCall
    /\ V1Idle
    /\ V2Idle
    /\ EngIdle

\* the connection receives the next n bytes and hands them to consume
ConsumeChunk(n) ==
    /\ n >= 1
    /\ chunking # "compared"
    /\ fed + n <= Len(Stream(frames))
    /\ \E o \in consume(parser, SubSeq(Stream(frames), fed + 1, fed + n)) :
         /\ parser' = o.parser
         /\ total' = AddResults(total, o.ret)
         /\ overread' = (overread \/ o.overread)
    /\ fed' = fed + n
    /\ chunking' = IF chunking = "none" /\ n = Len(Stream(frames)) THEN "whole" ELSE "parts"
    /\ UNCHANGED <<frames, bytewise, whole>>
    /\ UNCHANGED <<v1vars, v2vars, engvars>>

\* every (parser, sum of results) that feeding bytes i+1.. of data to p, one
\* byte per consume call, can end with
RECURSIVE FeedBytes(_, _, _, _)
FeedBytes(p, data, i, acc) ==
    IF i = Len(data) THEN { acc }
    ELSE UNION { FeedBytes(o.parser, data, i + 1, AddResults(acc, o.ret)) :
                   o \in consume(p, <<data[i + 1]>>) }

\* the same stream goes to two fresh parsers: one byte per call to the first,
\* all of it in a single call to the second
CompareFeeds ==
    /\ chunking = "none"
    /\ bytewise' \in FeedBytes(NewParser, Stream(frames), 0, NoResults)
    /\ \E o \in consume(NewParser, Stream(frames)) : whole' = o.ret
    /\ chunking' = "compared"
    /\ UNCHANGED <<frames, parser, fed, total, overread>>
    /\ UNCHANGED <<v1vars, v2vars, engvars>>

ParserNext ==
    \/ \E n \in 1..(MaxFrames * (HeaderSize + MaxLen)) : ConsumeChunk(n)
    \/ CompareFeeds

SpecParser == ParserInit /\ [][ParserNext]_vars

----------------------------------------------------------------------------
(* Claims about ProtocolParser::consume, checked under SpecParser *)

Ended == FramesEndedBy(frames, fed)

\* C1: framing round-trip. Whatever the chunking, after every consume call the
\* counts returned so far sum to the number of frames whose last byte has been
\* delivered, and the to_write values sum to the reply sizes of exactly those
\* frames (so each frame is reported by the call that delivers its last byte,
\* in order).
C1_RoundTrip ==
    /\ total.count = Cardinality(Ended)
    /\ total.to_write = SumReplies(frames, Ended)

\* C2: splitting idempotence. Feeding a stream of whole frames one byte per
\* call and feeding it to a fresh parser in a single call give the same
\* (sum of to_write, sum of count).
C2_SplitSame ==
    chunking = "compared" => whole = bytewise

\* C3: a single consume call on a buffer holding k >= 2 complete frames reports
\* all k of them: count = k and to_write = the sum of the k reply sizes. Stated
\* for frames that carry payload (the zero-length frame is C4's case).
C3_AllInOneCall ==
    (chunking = "whole" /\ Len(frames) >= 2 /\ \A i \in 1..Len(frames) : frames[i].length >= 1) =>
        /\ total.count = Len(frames)
        /\ total.to_write = SumReplies(frames, 1..Len(frames))

\* C4: a frame declaring length = 0 is completed by the call that delivers the
\* 8th byte of its header: when a call ends on that byte (and no call has read
\* outside its buffer), the frame is counted, its reply_size is owed and the
\* parser is back in its initial state.
C4_ZeroLength ==
    \A i \in 1..Len(frames) :
        (frames[i].length = 0 /\ fed = FrameEnd(frames, i) /\ ~overread) =>
            /\ total.count = i
            /\ total.to_write = SumReplies(frames, 1..i)
            /\ parser.so_far = 0
            /\ parser.size_buff_have = 0
            /\ parser.is_reading = <<0, 0>>

\* C5: no early completion. Whatever the chunking, the number of frames consume
\* has counted as completed never exceeds the number of frames whose 8 header
\* bytes and `length` payload bytes have all been fed.
C5_NoEarlyCompletion == total.count <= Cardinality(Ended)

----------------------------------------------------------------------------
(* BufferProviderV1: the classic "provide buffers" pool *)

\* Range(idx, count): uint16 start and count
Range(idx, cnt) == [start |-> idx, count |-> cnt]

RangeIds(r) == r.start .. (r.start + r.count - 1)

\* a build that lays the union out with start in the low half
SortableCountFirst(r) == r.count * 65536 + r.start

\* the union's 32-bit view on a little-endian host: count is the low half
Sortable(r) == r.start * 65536 + r.count

\* merge(idx) that grows the Range downwards without moving its start
MergeIdxKeepsStart(r, idx) ==
    IF idx = r.start - 1 THEN [ok |-> TRUE, r |-> Range(r.start, r.count + 1)]
    ELSE IF idx = r.start + r.count THEN [ok |-> TRUE, r |-> Range(r.start, r.count + 1)]
    ELSE [ok |-> FALSE, r |-> r]

\* Range::merge(uint16_t idx): the arithmetic is done in int, so start - 1 is -1
\* for start = 0 and no idx equals it
MergeIdx(r, idx) ==
    IF idx = r.start - 1 THEN [ok |-> TRUE, r |-> Range(idx, r.count + 1)]
    ELSE IF idx = r.start + r.count THEN [ok |-> TRUE, r |-> Range(r.start, r.count + 1)]
    ELSE [ok |-> FALSE, r |-> r]

\* Range::merge(Range const&)
MergeRange(r, o) ==
    IF r.start + r.count = o.start THEN [ok |-> TRUE, r |-> Range(r.start, r.count + o.count)]
    ELSE IF o.start + o.count = r.start THEN [ok |-> TRUE, r |-> Range(o.start, r.count + o.count)]
    ELSE [ok |-> FALSE, r |-> r]

Front(q) == SubSeq(q, 1, Len(q) - 1)

\* the loop of compact over the sorted vector, building toProvide2_
RECURSIVE CompactFold(_, _, _)
CompactFold(sorted, i, acc) ==
    IF i > Len(sorted) THEN acc
    ELSE LET m == MergeRange(acc[Len(acc)], sorted[i])
         IN IF m.ok
            THEN CompactFold(sorted, i + 1, [acc EXCEPT ![Len(acc)] = m.r])
            ELSE CompactFold(sorted, i + 1, Append(acc, sorted[i]))

\* compact that folds the vector in the order it finds it
compactNoSort(tp) ==
    IF Len(tp) <= 1 THEN tp
    ELSE IF Len(tp) = 2
    THEN LET m == MergeRange(tp[1], tp[2])
         IN IF m.ok THEN << m.r >> ELSE tp
    ELSE CompactFold(tp, 2, << tp[1] >>)

\* BufferProviderV1::compact on the free list
compact(tp) ==
    IF Len(tp) <= 1 THEN tp
    ELSE IF Len(tp) = 2
    THEN LET m == MergeRange(tp[1], tp[2])
         IN IF m.ok THEN << m.r >> ELSE tp
    ELSE LET sorted == SortSeq(tp, LAMBDA a, b : Sortable(a) < Sortable(b))
         IN CompactFold(sorted, 2, << sorted[1] >>)

\* BufferProviderV1::returnIndex on the free list
returnIndexList(tp, i) ==
    IF tp = <<>> THEN << Range(i, 1) >>
    ELSE LET n    == Len(tp)
             back == MergeIdx(tp[n], i)
         IN IF back.ok THEN [tp EXCEPT ![n] = back.r]
            ELSE IF n >= 2 /\ MergeIdx(tp[n - 1], i).ok
            THEN LET prev == MergeIdx(tp[n - 1], i).r
                     both == MergeRange(prev, tp[n])
                 IN IF both.ok
                    THEN [Front(tp) EXCEPT ![n - 1] = both.r]
                    ELSE [tp EXCEPT ![n - 1] = prev]
            ELSE Append(tp, Range(i, 1))

\* the provider's free-list state as one value
Pool(tp, cnt) == [toProvide |-> tp, toProvideCount |-> cnt]

\* BufferProviderV1::BufferProviderV1
NewPool(count) == Pool(<< Range(0, count) >>, count)

\* BufferProviderV1::returnIndex
returnIndex(pool, i) == Pool(returnIndexList(pool.toProvide, i), pool.toProvideCount + 1)

\* provide that takes one buffer off the pending count whatever the Range holds
provideCountsOne(pool) ==
    Pool(Front(pool.toProvide), pool.toProvideCount - 1)

\* BufferProviderV1::provide: the last Range goes into a provide-buffers submission
provide(pool) ==
    LET r == pool.toProvide[Len(pool.toProvide)]
    IN Pool(Front(pool.toProvide), pool.toProvideCount - r.count)

canProvide(pool) == Len(pool.toProvide) # 0

\* needsToProvide that lets one more buffer pend before it asks for a publish
needsToProvideLate(pool, low) == pool.toProvideCount > low + 1

needsToProvide(pool, low) == pool.toProvideCount > low

RECURSIVE SumCounts(_)
SumCounts(tp) == IF tp = <<>> THEN 0 ELSE Head(tp).count + SumCounts(Tail(tp))

Covered(tp) == UNION { RangeIds(tp[k]) : k \in 1..Len(tp) }

----------------------------------------------------------------------------
(* The provider's interface called directly, in any order *)

V1Init ==
    /\ toProvide_ = NewPool(PoolCount).toProvide
    /\ toProvideCount_ = NewPool(PoolCount).toProvideCount
    /\ lowWatermark_ = PoolCount \div 4
    /\ compactCfg = FALSE
    /\ kernelBufs = {}
    /\ returned = {}
    /\ phase = "other"
    /\ ParserIdle
    /\ V2Idle
    /\ EngIdle

\* returnIndex(i): at most PoolCount buffers are ever out of the kernel
CallReturnIndex(i) ==
    /\ toProvideCount_ < PoolCount
    /\ LET np == returnIndex(Pool(toProvide_, toProvideCount_), i)
       IN /\ toProvide_' = np.toProvide
          /\ toProvideCount_' = np.toProvideCount
    /\ IF phase = "returning" /\ i \notin returned
       THEN returned' = returned \cup {i} /\ phase' = "returning"
       ELSE returned' = returned /\ phase' = "other"
    /\ UNCHANGED <<lowWatermark_, compactCfg, kernelBufs>>
    /\ UNCHANGED <<pvars, v2vars, engvars>>

CallCompact ==
    /\ toProvide_' = compact(toProvide_)
    /\ phase' = IF phase = "returning" THEN "compacted" ELSE "other"
    /\ UNCHANGED <<toProvideCount_, lowWatermark_, compactCfg, kernelBufs, returned>>
    /\ UNCHANGED <<pvars, v2vars, engvars>>

\* provide(sqe): callers check canProvide() first
CallProvide ==
    /\ canProvide(Pool(toProvide_, toProvideCount_))
    /\ LET np == provide(Pool(toProvide_, toProvideCount_))
       IN /\ toProvide_' = np.toProvide
          /\ toProvideCount_' = np.toProvideCount
          /\ IF np.toProvide = <<>>
             THEN returned' = {} /\ phase' = "returning"
             ELSE returned' = returned /\ phase' = "other"
    /\ UNCHANGED <<lowWatermark_, compactCfg, kernelBufs>>
    /\ UNCHANGED <<pvars, v2vars, engvars>>

V1Next ==
    \/ \E i \in 0..(PoolCount - 1) : CallReturnIndex(i)
    \/ CallCompact
    \/ CallProvide

SpecV1 == V1Init /\ [][V1Next]_vars

\* C7: pool coalescing. Starting from an empty free list, returning each index
\* of {0,...,k-1} exactly once, in any order, and then calling compact() once
\* leaves exactly one Range {start 0, count k}.
C7_Coalesce ==
    \A k \in 1..PoolCount :
        (phase = "compacted" /\ returned = 0..(k - 1)) => toProvide_ = << Range(0, k) >>

\* a permutation that needs the sorting path of compact was returned and compacted
C7_Witness ==
    /\ phase = "compacted"
    /\ returned = 0..(PoolCount - 1)
    /\ toProvide_ = << Range(0, PoolCount) >>

\* C8: after construction and after any sequence of returnIndex, compact and
\* provide calls, toProvideCount_ equals the sum of the counts of the Ranges in
\* the free list.
C8_CountIsSum == toProvideCount_ = SumCounts(toProvide_)

\* several Ranges are pending after returns that followed a provide
C8_Witness ==
    /\ Len(toProvide_) >= 3
    /\ phase = "returning"
    /\ toProvideCount_ = SumCounts(toProvide_)

\* C24: compact() is idempotent and changes neither the set of buffer indices
\* the free list covers nor toProvideCount_: on every free list the calls can
\* build, compacting twice gives what compacting once gives and the covered
\* set is kept, and a compact() call leaves a list that compact() leaves alone.
C24_CompactIdempotent ==
    /\ [](compact(compact(toProvide_)) = compact(toProvide_))
    /\ [](Covered(compact(toProvide_)) = Covered(toProvide_))
    /\ [](SumCounts(compact(toProvide_)) = SumCounts(toProvide_))
    /\ [][(toProvide_' # toProvide_ /\ toProvideCount_' = toProvideCount_)
            => /\ toProvide_' = compact(toProvide_)
               /\ compact(toProvide_') = toProvide_'
               /\ Covered(toProvide_') = Covered(toProvide_)]_vars

\* compact() merged a free list of three or more Ranges into fewer, still more than one
C24_Witness ==
    /\ phase = "compacted"
    /\ Len(toProvide_) = 2
    /\ toProvideCount_ = PoolCount - 1
    /\ returned = Covered(toProvide_)

----------------------------------------------------------------------------
(* The ring engine's use of the classic provider *)

\* the while loop of provideBuffers: every Range of the free list is provided;
\* ids collects the buffer ids the submissions hand to the kernel
RECURSIVE ProvideAll(_, _)
ProvideAll(pool, ids) ==
    IF ~canProvide(pool) THEN [pool |-> pool, ids |-> ids]
    ELSE ProvideAll(provide(pool), ids \cup RangeIds(pool.toProvide[Len(pool.toProvide)]))

\* IOUringRunner::provideBuffers(force)
provideBuffers(pool, force, low, cmp) ==
    IF ~(force \/ needsToProvide(pool, low)) THEN [pool |-> pool, ids |-> {}]
    ELSE ProvideAll(IF cmp THEN Pool(compact(pool.toProvide), pool.toProvideCount) ELSE pool, {})

\* the constructor: the whole pool is provided before the loop starts
RingPoolInit ==
    /\ lowWatermark_ \in 0..(ProvidedBufferCount - 1)
    /\ compactCfg \in BOOLEAN
    /\ LET p == provideBuffers(NewPool(ProvidedBufferCount), TRUE, lowWatermark_, compactCfg)
       IN /\ toProvide_ = p.pool.toProvide
          /\ toProvideCount_ = p.pool.toProvideCount
          /\ kernelBufs = p.ids
    /\ returned = {}
    /\ phase = "other"
    /\ ParserIdle
    /\ V2Idle
    /\ EngIdle

\* processRead of a successful recv completion that carries buffer id b:
\* the buffer is recycled when res.recycleBufferIdx > 0, then provideBuffers(false)
ProcessReadBuffer(b) ==
    /\ b \in kernelBufs
    /\ LET recycle == b > 0
           p0 == Pool(toProvide_, toProvideCount_)
           p1 == IF recycle THEN returnIndex(p0, b) ELSE p0
           p2 == IF recycle THEN provideBuffers(p1, FALSE, lowWatermark_, compactCfg)
                 ELSE [pool |-> p1, ids |-> {}]
       IN /\ toProvide_' = p2.pool.toProvide
          /\ toProvideCount_' = p2.pool.toProvideCount
          /\ kernelBufs' = (kernelBufs \ {b}) \cup p2.ids
          /\ returned' = ((IF recycle THEN returned \cup {b} ELSE returned) \ p2.ids)
          /\ lastRecv' = [bid |-> b, returns |-> IF recycle THEN 1 ELSE 0]
    /\ UNCHANGED <<lowWatermark_, compactCfg, phase>>
    /\ UNCHANGED <<pvars, v2vars, rvars, cvars, evars, fvars, qvars, wvars, uvars, svars>>

\* the provideBuffers(false) at the top of every loop iteration
LoopProvide ==
    /\ LET p == provideBuffers(Pool(toProvide_, toProvideCount_), FALSE, lowWatermark_, compactCfg)
       IN /\ toProvide_' = p.pool.toProvide
          /\ toProvideCount_' = p.pool.toProvideCount
          /\ kernelBufs' = kernelBufs \cup p.ids
          /\ returned' = returned \ p.ids
    /\ UNCHANGED <<lowWatermark_, compactCfg, phase>>
    /\ UNCHANGED <<pvars, v2vars, engvars>>

RingPoolNext ==
    \/ \E b \in 0..(ProvidedBufferCount - 1) : ProcessReadBuffer(b)
    \/ LoopProvide

SpecRingPool == RingPoolInit /\ [][RingPoolNext]_vars

\* C6: pool conservation. Whenever no recv completion is being handled, the sum
\* of the counts of the free-list Ranges plus the number of buffers provided to
\* the kernel and not yet delivered equals provided_buffer_count.
C6_Conservation ==
    SumCounts(toProvide_) + Cardinality(kernelBufs) = ProvidedBufferCount

NoOverlap(tp) ==
    \A j, k \in 1..Len(tp) : j # k => RangeIds(tp[j]) \cap RangeIds(tp[k]) = {}

\* C9: after any sequence of returnIndex, compact and provide calls made by the
\* ring engine, no buffer index is covered by two Ranges of the free list, and
\* the indices the free list covers are exactly those returned and not yet
\* provided.
C9_RangesExact ==
    /\ NoOverlap(toProvide_)
    /\ Covered(toProvide_) = returned

\* the free list holds three separate Ranges of returned buffers
C9_Witness ==
    /\ Len(toProvide_) >= 3
    /\ Covered(toProvide_) = returned

\* C20: for every successful recv completion that carries buffer id b, for
\* every b in 0..provided_buffer_count-1, the engine returns b to the provider
\* exactly once while it handles the completion.
C20_ReturnedOnce ==
    lastRecv.bid \in 0..(ProvidedBufferCount - 1) => lastRecv.returns = 1

\* C23: in classic-provider mode the pending count never exceeds low_watermark
\* after a read completion was handled or at the start of a wait; a return that
\* takes it above low_watermark is followed, in the same handler, by the
\* publishing of every Range: the free list is empty, the pending count is 0
\* and the kernel holds every buffer the free list covered.
C23_PendingBelowWatermark ==
    /\ [](toProvideCount_ <= lowWatermark_)
    /\ [][(toProvideCount_ + 1 > lowWatermark_ /\ toProvide_' # toProvide_)
            => /\ toProvide_' = <<>>
               /\ toProvideCount_' = 0
               /\ Covered(toProvide_) \subseteq kernelBufs']_vars
    /\ [][toProvideCount_' < toProvideCount_
            => (toProvide_' = <<>> /\ toProvideCount_' = 0)]_vars

\* returns piled up to the watermark, the next one published them all
C23_Witness ==
    /\ lowWatermark_ >= 2
    /\ toProvide_ = <<>>
    /\ toProvideCount_ = 0
    /\ lastRecv.returns = 1
    /\ lastRecv.bid \in kernelBufs
    /\ Cardinality(kernelBufs) = ProvidedBufferCount

----------------------------------------------------------------------------
(* BufferProviderV2: the shared ring provider, driven by the ring engine *)

\* ringSize_: the smallest power of two >= count_
RECURSIVE RingSizeFrom(_, _)
RingSizeFrom(size, count) == IF size < count THEN RingSizeFrom(size * 2, count) ELSE size

ringSize_ == RingSizeFrom(1, SharedRingCount)

\* the place of ring_->bufs[t & ringMask_] in ringBufs (a sequence, from 1),
\* with ringMask_ = ringSize_ - 1
Slot(t) == (t % ringSize_) + 1

\* the tail-writing loop of returnIndex on a counter wider than 16 bits
RECURSIVE FlushWide(_, _, _)
FlushWide(bufs, tail, staged) ==
    IF staged = <<>> THEN [bufs |-> bufs, tail |-> tail]
    ELSE FlushWide([bufs EXCEPT ![Slot(tail)] = Head(staged)], tail + 1, Tail(staged))

\* the write loop of returnIndex going through the staged indices from the last
RECURSIVE FlushBackwards(_, _, _)
FlushBackwards(bufs, tail, staged) ==
    IF staged = <<>> THEN [bufs |-> bufs, tail |-> tail]
    ELSE FlushBackwards([bufs EXCEPT ![Slot(tail)] = staged[Len(staged)]],
                        (tail + 1) % Uint16,
                        Front(staged))

\* the loop of returnIndex that writes the staged indices at the tail:
\* populate(ring_->bufs[tailCached_ & ringMask_], idx); ++tailCached_
RECURSIVE Flush(_, _, _)
Flush(bufs, tail, staged) ==
    IF staged = <<>> THEN [bufs |-> bufs, tail |-> tail]
    ELSE Flush([bufs EXCEPT ![Slot(tail)] = Head(staged)],
               (tail + 1) % Uint16,
               Tail(staged))

\* BufferProviderV2::BufferProviderV2: descriptors 0..count_-1 are populated
\* (the rest of the mapping is zero-filled) and the tail count_ is published
V2Init ==
    /\ tailCached_ = SharedRingCount
    /\ ringTail = SharedRingCount
    /\ prevTail = 0
    /\ cachedIndices = 0
    /\ indices = <<>>
    /\ ringBufs = [k \in 1..ringSize_ |-> IF k - 1 < SharedRingCount THEN k - 1 ELSE 0]
    /\ kernelHead = 0
    /\ ParserIdle
    /\ V1Idle
    /\ EngIdle

\* A recv completion: the kernel took the descriptor at its head and the engine
\* handles the completion. processRead recycles the buffer when
\* res.recycleBufferIdx > 0; returnIndex stages it and, on the 32nd staged
\* index, writes them all at the tail and publishes the tail.
ProcessReadV2 ==
    /\ kernelHead # ringTail
    /\ kernelHead' = (kernelHead + 1) % Uint16
    /\ LET b == ringBufs[Slot(kernelHead)]
       IN /\ lastRecv' = [bid |-> b, returns |-> IF b > 0 THEN 1 ELSE 0]
          /\ IF b > 0
             THEN LET staged == Append(indices, b)
                  IN IF Len(staged) < IndicesSize
                     THEN /\ indices' = staged
                          /\ cachedIndices' = cachedIndices + 1
                          /\ UNCHANGED <<tailCached_, ringTail, prevTail, ringBufs>>
                     ELSE LET f == Flush(ringBufs, tailCached_, staged)
                          IN /\ indices' = <<>>
                             /\ cachedIndices' = 0
                             /\ ringBufs' = f.bufs
                             /\ tailCached_' = f.tail
                             /\ ringTail' = f.tail
                             /\ prevTail' = ringTail
             ELSE UNCHANGED <<tailCached_, ringTail, prevTail, cachedIndices, indices, ringBufs>>
    /\ UNCHANGED <<pvars, v1vars, rvars, cvars, evars, fvars, qvars, wvars, uvars, svars>>

V2Next == ProcessReadV2

SpecV2 == V2Init /\ [][V2Next]_vars


\* C10 as stated: every value stored to the ring's tail is greater than or equal
\* to the value stored before it.
C10_TailNeverDecreases == ringTail >= prevTail

\* C10, amended: the tail is a 16-bit counter. The constructor stores count_;
\* every later store is the previous value plus 32 modulo 2^16, so a stored
\* value is below the previous one exactly when the counter wrapped.
C10_TailAdvancesMod16 ==
    /\ ringTail = tailCached_
    /\ \/ prevTail = 0 /\ ringTail = SharedRingCount
       \/ ringTail = (prevTail + IndicesSize) % Uint16
    /\ ringTail < prevTail => prevTail + IndicesSize >= Uint16

\* a publish by returnIndex has wrapped the 16-bit tail
C10_Witness == ringTail < prevTail /\ cachedIndices = 0

----------------------------------------------------------------------------
(* IOUringRunner: accepting, closing and the loop. The data path of a recv    *)
(* completion (buffers, parser, send) is modelled by the specifications of    *)
(* the providers and of the connection; here a recv completion only decides   *)
(* whether the connection lives on.                                           *)

Listeners == 1..NumListen

ConnIds == 1..MaxConns

\* descriptors a plain accept can return
Fds == 0..(MaxConns - 1)

AcceptResults == {-EMFILE} \cup Fds

ReadResults == {-ENOBUFS, -ECONNRESET, 0, 1}

CloseResults == {-EBADF, -EIO, 0}

WriteResults == {-ECONNRESET, 1}

\* the fields of the runner that the completion handlers update
Engine ==
    [pending |-> acceptPending, idx |-> nextAcceptIdx, pool |-> acceptFdPool_,
     conn |-> conn, socks |-> socks_, died |-> FALSE]

\* die(...): reports and aborts; control does not come back to the caller
die(s) == [s EXCEPT !.died = TRUE]

\* nextFdIdx() that returns the back of the free stack and leaves it there
nextFdIdxNoPop(s) ==
    IF s.pool = <<>> THEN [s |-> die(s), ret |-> NoFd]
    ELSE [s |-> s, ret |-> s.pool[Len(s.pool)]]

\* nextFdIdx(): pops the back of the free stack
nextFdIdx(s) ==
    IF s.pool = <<>> THEN [s |-> die(s), ret |-> NoFd]
    ELSE [s |-> [s EXCEPT !.pool = Front(s.pool)], ret |-> s.pool[Len(s.pool)]]

\* addAccept without the reservation check and without a guard on a pending accept
addAcceptTwice(s, ls) == [s EXCEPT !.pending[ls] = @ + 2]

\* addAccept(ls): one accept submission for ls; in fixed-file mode it reserves
\* an index for the direct accept
addAccept(s, ls) ==
    IF fixedFiles
    THEN IF s.idx[ls] >= 0 THEN die(s)
         ELSE LET r == nextFdIdx(s)
              IN IF r.s.died THEN r.s
                 ELSE [r.s EXCEPT !.idx[ls] = r.ret, !.pending[ls] = @ + 1]
    ELSE [s EXCEPT !.pending[ls] = @ + 1]

\* the places for a new TSock: none is at a place while a completion can still
\* name the TSock that was there
FreeIds(s) == { c \in ConnIds : s.conn[c].st \in {"none", "freed"} /\ s.conn[c].sends = 0 }

\* new TSock(rxCfg_, fd); addRead(sock); newSock()
NewSock(s, fd) ==
    LET c == CHOOSE x \in FreeIds(s) : \A y \in FreeIds(s) : x <= y
    IN [s EXCEPT !.conn[c] = [st |-> "open", fd |-> fd, reads |-> 1, sends |-> 0,
                              freedBy |-> "none", closeRes |-> 0],
                 !.socks = @ + 1]

\* the accept4 loop of processAccept: the sockets in fds are waiting, then EAGAIN
RECURSIVE Drain(_, _)
Drain(s, fds) ==
    IF fds = {} THEN s
    ELSE LET fd == CHOOSE x \in fds : \A y \in fds : x <= y
         IN Drain(NewSock(s, fd), fds \ {fd})

\* processAccept that takes a failed accept as it takes one while stopping
processAcceptAbsorbs(s, ls, res, waiting) ==
    LET s0 == [s EXCEPT !.pending[ls] = @ - 1]
        s1 == IF res >= 0
              THEN IF fixedFiles
                   THEN IF res > 0 THEN die(s0)
                        ELSE IF s0.idx[ls] < 0 THEN die(s0)
                        ELSE NewSock([s0 EXCEPT !.idx[ls] = NoFd], s0.idx[ls])
                   ELSE NewSock(s0, res)
              ELSE s0
    IN IF s1.died \/ stopping \/ res < 0 THEN s1
       ELSE addAccept(IF nonblockAccept /\ ~fixedFiles THEN Drain(s1, waiting) ELSE s1, ls)

\* processAccept on a completion of ls with result res
processAccept(s, ls, res, waiting) ==
    LET s0 == [s EXCEPT !.pending[ls] = @ - 1]
        s1 == IF res >= 0
              THEN IF fixedFiles
                   THEN IF res > 0 THEN die(s0)
                        ELSE IF s0.idx[ls] < 0 THEN die(s0)
                        ELSE NewSock([s0 EXCEPT !.idx[ls] = NoFd], s0.idx[ls])
                   ELSE NewSock(s0, res)
              ELSE IF ~stopping THEN die(s0) ELSE s0
    IN IF s1.died \/ stopping THEN s1
       ELSE addAccept(IF nonblockAccept /\ ~fixedFiles THEN Drain(s1, waiting) ELSE s1, ls)

\* processClose recycling the index whatever the result
RecyclesAlways(res) == TRUE

\* the test of processClose: !res || res == -EBADF
Recycles(res) == res = 0 \/ res = -EBADF

\* processClose frees the TSock only when the close went through
processCloseKeepsFailed(s, c, res) ==
    LET s1 == IF Recycles(res) /\ fixedFiles
              THEN [s EXCEPT !.pool = Append(@, s.conn[c].fd)] ELSE s
    IN IF Recycles(res)
       THEN [s1 EXCEPT !.conn[c] = [st |-> "freed", fd |-> NoFd, reads |-> 0,
                                    sends |-> s.conn[c].sends,
                                    freedBy |-> "close", closeRes |-> res]]
       ELSE s1

\* processClose(cqe, sock)
processClose(s, c, res) ==
    LET s1 == IF Recycles(res) /\ fixedFiles
              THEN [s EXCEPT !.pool = Append(@, s.conn[c].fd)] ELSE s
    IN [s1 EXCEPT !.conn[c] = [st |-> "freed", fd |-> NoFd, reads |-> 0,
                               sends |-> s.conn[c].sends,
                               freedBy |-> "close", closeRes |-> res]]

\* the -ENOBUFS branch of processRead, had it requeued the recv
NoBuffersRequeue(s, c) == s

\* the -ENOBUFS branch of processRead: die(...), so the addRead and the return
\* that follow it are not reached
NoBuffers(s, c) == die([s EXCEPT !.conn[c].reads = @ - 1])

\* BasicSock::didRead, the amount it reports: cqe->res when that is <= 0; the
\* payload length of the message for a multishot recvmsg; else cqe->res
didRead(cqe) ==
    IF cqe.res <= 0 THEN cqe.res
    ELSE IF multishot /\ recvmsg THEN cqe.payload
    ELSE cqe.res

\* the test before addRead that posts a recv after every read
RearmsAlways(cqe) == TRUE

\* !sock->isMultiShotRecv() || !(cqe->flags & IORING_CQE_F_MORE)
Rearms(cqe) == ~multishot \/ ~cqe.more

\* processRead that closes the connection and leaves its recv posted
processReadKeepsRecv(s, c, cqe) ==
    LET used == [s EXCEPT !.conn[c].reads = @ - (IF cqe.more THEN 0 ELSE 1)]
        sent == IF cqe.owes THEN [used EXCEPT !.conn[c].sends = @ + 1] ELSE used
    IN IF didRead(cqe) > 0
       THEN IF Rearms(cqe) THEN [sent EXCEPT !.conn[c].reads = @ + 1] ELSE sent
       ELSE IF cqe.res = -ENOBUFS THEN NoBuffers(s, c)
       ELSE IF fixedFiles
            THEN [s EXCEPT !.conn[c].st = "closing"]
            ELSE [s EXCEPT !.conn[c] = [st |-> "freed", fd |-> NoFd, reads |-> s.conn[c].reads,
                                        sends |-> s.conn[c].sends,
                                        freedBy |-> "read", closeRes |-> 0],
                           !.socks = @ - 1]

\* processRead of the completion cqe of a recv of connection c. The completion
\* used the recv up unless it carries IORING_CQE_F_MORE. With an amount > 0 the
\* send is posted when the parser reported bytes to write (cqe.owes) and the
\* recv is posted again unless the multishot recv goes on; an amount <= 0 ends
\* the connection: the close is posted (fixed files) or made at once
processRead(s, c, cqe) ==
    LET used == [s EXCEPT !.conn[c].reads = @ - (IF cqe.more THEN 0 ELSE 1)]
        sent == IF cqe.owes THEN [used EXCEPT !.conn[c].sends = @ + 1] ELSE used
    IN IF didRead(cqe) > 0
       THEN IF Rearms(cqe) THEN [sent EXCEPT !.conn[c].reads = @ + 1] ELSE sent
       ELSE IF cqe.res = -ENOBUFS THEN NoBuffers(s, c)
       ELSE IF fixedFiles
            THEN [s EXCEPT !.conn[c].reads = @ - 1, !.conn[c].st = "closing"]
            ELSE [s EXCEPT !.conn[c] = [st |-> "freed", fd |-> NoFd, reads |-> 0,
                                        sends |-> s.conn[c].sends,
                                        freedBy |-> "read", closeRes |-> 0],
                           !.socks = @ - 1]

\* case kWrite of processCqe: nothing is done for res >= 0; for res < 0 the
\* handler reads sock->closing() and sock->fd() and may log. When the TSock was
\* deleted before (processRead without fixed files, processClose with them)
\* these are reads through a dangling pointer: they give any value, which
\* changes the log line only, or fault
processWrite(s, c, res, fault) ==
    IF res < 0 /\ s.conn[c].st = "freed" /\ fault THEN [s EXCEPT !.died = TRUE] ELSE s

\* the fields of the runner after a handler returned s
Commit(s) ==
    /\ acceptPending' = s.pending
    /\ nextAcceptIdx' = s.idx
    /\ acceptFdPool_' = s.pool
    /\ conn' = s.conn
    /\ socks_' = s.socks
    /\ runState' = IF s.died THEN "died" ELSE runState

\* a completion is handled either by the processCqe after the wait or in the
\* io_uring_for_each_cqe loop
CanHandleCqe == runState = "running" /\ pc \in {"wait", "drain"}

AfterCqe == IF pc = "wait" THEN "check" ELSE pc

\* IOUringRunner's constructor followed by addListenSock for each listen socket
RingInit ==
    /\ fixedFiles \in BOOLEAN
    /\ nonblockAccept \in BOOLEAN
    /\ fixedFiles => ~nonblockAccept
    /\ multishot \in BOOLEAN
    /\ recvmsg \in BOOLEAN
    /\ runState = "running"
    /\ pc = "wait"
    /\ shutdownFlag = FALSE
    /\ stopping = FALSE
    /\ listenClosed = [ls \in Listeners |-> FALSE]
    /\ acceptPending = [ls \in Listeners |-> 1]
    /\ nextAcceptIdx = [ls \in Listeners |-> IF fixedFiles THEN ls - 1 ELSE NoFd]
    /\ acceptFdPool_ = [k \in 1..(IF fixedFiles THEN FixedFileCount - NumListen ELSE 0)
                          |-> FixedFileCount - k]
    /\ conn = [c \in ConnIds |-> NoSock]
    /\ socks_ = 0
    /\ leaked = {}
    /\ lastCqe = NoCqe
    /\ checksAfterFlag = 0
    /\ ParserIdle
    /\ V1Idle
    /\ V2Idle
    /\ ConnIdle
    /\ EPollIdle
    /\ RecvIdle
    /\ FineIdle
    /\ CqIdle
    /\ MultiIdle
    /\ SetupIdle
    /\ StatsIdle

RingFrame == UNCHANGED <<fixedFiles, nonblockAccept, multishot, recvmsg, pvars, v1vars, v2vars, cvars, evars, bvars, fvars, qvars, wvars, uvars, svars>>

\* kAccept: the kernel completes the accept of ls with res; waiting are the
\* descriptors accept4 can still return. socks_ is never decremented in
\* fixed-file mode, so the sockets ever accepted are capped at MaxSocks.
CqeAccept(ls, res, waiting) ==
    /\ CanHandleCqe
    /\ acceptPending[ls] > 0
    /\ socks_ + Cardinality(waiting) + (IF res >= 0 THEN 1 ELSE 0) <= MaxSocks
    /\ ~fixedFiles => res \notin { conn[c].fd : c \in ConnIds }
    /\ waiting \cap ({res} \cup { conn[c].fd : c \in ConnIds }) = {}
    /\ ~(nonblockAccept /\ ~stopping /\ res >= 0) => waiting = {}
    /\ Cardinality(waiting) + (IF res >= 0 THEN 1 ELSE 0) <= Cardinality(FreeIds(Engine))
    /\ Commit(processAccept(Engine, ls, res, waiting))
    /\ lastCqe' = [NoCqe EXCEPT !.kind = "accept", !.res = IF res < 0 THEN res ELSE 0]
    /\ pc' = AfterCqe
    /\ UNCHANGED <<shutdownFlag, stopping, listenClosed, leaked, checksAfterFlag>>
    /\ RingFrame

\* kRead: the completion of a recv of connection c, which the kernel posts for
\* a recv that is armed. F_MORE comes only with a multishot recv that delivered
\* data; a multishot recvmsg reports the end of the stream as a message with
\* an empty payload and without F_MORE. owes: the parser completed a frame
\* that asks for a reply
CqeRead(c, res, more, payload, owes) ==
    /\ CanHandleCqe
    /\ conn[c].reads > 0
    /\ more => (multishot /\ res > 0)
    /\ res <= 0 => payload = 0
    /\ (res > 0 /\ payload = 0) => (multishot /\ recvmsg /\ ~more)
    /\ owes => (payload > 0 /\ conn[c].sends < MaxSendsOut)
    /\ LET cqe == [res |-> res, more |-> more, payload |-> payload, owes |-> owes]
           s == processRead(Engine, c, cqe)
       IN /\ Commit(s)
          /\ lastCqe' = [NoCqe EXCEPT !.kind = "read", !.who = c, !.res = res, !.more = more,
                                      !.amount = didRead(cqe),
                                      !.posted = s.conn[c].reads >
                                                   conn[c].reads - (IF more THEN 0 ELSE 1)]
    /\ pc' = AfterCqe
    /\ UNCHANGED <<shutdownFlag, stopping, listenClosed, leaked, checksAfterFlag>>
    /\ RingFrame

\* kWrite: the completion of a send of connection c; the kernel posts it when
\* the send ends, which may be after the TSock was deleted
CqeWrite(c, res, fault) ==
    /\ CanHandleCqe
    /\ conn[c].sends > 0
    /\ LET s == processWrite(Engine, c, res, fault)
       IN Commit([s EXCEPT !.conn[c].sends = @ - 1])
    /\ lastCqe' = [NoCqe EXCEPT !.kind = "write", !.who = c, !.res = res]
    /\ pc' = AfterCqe
    /\ UNCHANGED <<shutdownFlag, stopping, listenClosed, leaked, checksAfterFlag>>
    /\ RingFrame

\* kOther with a closing sock: the completion of the close posted by processRead
CqeClose(c, res) ==
    /\ CanHandleCqe
    /\ conn[c].st = "closing"
    /\ LET s == processClose(Engine, c, res)
       IN /\ Commit(s)
          /\ lastCqe' = [NoCqe EXCEPT !.kind = "close", !.who = c, !.res = res,
                                      !.fd = conn[c].fd,
                                      !.pushed = Len(s.pool) > Len(acceptFdPool_)]
          /\ leaked' = IF Recycles(res) THEN leaked ELSE leaked \cup {conn[c].fd}
    /\ pc' = AfterCqe
    /\ UNCHANGED <<shutdownFlag, stopping, listenClosed, checksAfterFlag>>
    /\ RingFrame

\* the wait returns without a completion to handle (timeout, EINTR, or the
\* submitAndWait1 and flushOverflow paths, which handle none)
WaitReturns ==
    /\ runState = "running"
    /\ pc = "wait"
    /\ pc' = "check"
    /\ UNCHANGED <<runState, shutdownFlag, stopping, listenClosed, acceptPending, nextAcceptIdx,
                   acceptFdPool_, conn, socks_, leaked, lastCqe, checksAfterFlag>>
    /\ RingFrame

\* a signal, or the owner of the engine, asks for shutdown
RequestShutdown ==
    /\ runState = "running"
    /\ ~shutdownFlag
    /\ shutdownFlag' = TRUE
    /\ UNCHANGED <<runState, pc, stopping, listenClosed, acceptPending, nextAcceptIdx,
                   acceptFdPool_, conn, socks_, leaked, lastCqe, checksAfterFlag>>
    /\ RingFrame

\* the shutdown test without the break of the second time round
CheckShutdownNoBreak ==
    /\ runState = "running"
    /\ pc = "check"
    /\ pc' = "drain"
    /\ IF shutdownFlag
       THEN /\ checksAfterFlag' = Min(checksAfterFlag + 1, 2)
            /\ stopping' = TRUE
            /\ listenClosed' = [ls \in Listeners |-> TRUE]
       ELSE UNCHANGED <<stopping, listenClosed, checksAfterFlag>>
    /\ UNCHANGED <<runState, shutdownFlag, acceptPending, nextAcceptIdx, acceptFdPool_, conn,
                   socks_, leaked, lastCqe>>
    /\ RingFrame

\* the test of the shutdown flags in the loop body: break when already
\* stopping, else stop(), which sets stopping and closes the listen sockets
CheckShutdown ==
    /\ runState = "running"
    /\ pc = "check"
    /\ IF shutdownFlag
       THEN /\ checksAfterFlag' = checksAfterFlag + 1
            /\ IF stopping
               THEN /\ runState' = "exited"
                    /\ pc' = pc
                    /\ UNCHANGED <<stopping, listenClosed>>
               ELSE /\ stopping' = TRUE
                    /\ listenClosed' = [ls \in Listeners |-> TRUE]
                    /\ pc' = "drain"
                    /\ UNCHANGED runState
       ELSE /\ pc' = "drain"
            /\ UNCHANGED <<runState, stopping, listenClosed, checksAfterFlag>>
    /\ UNCHANGED <<shutdownFlag, acceptPending, nextAcceptIdx, acceptFdPool_, conn, socks_,
                   leaked, lastCqe>>
    /\ RingFrame

\* the end of the loop body and the loop condition: while (socks() || !stopping)
EndIteration ==
    /\ runState = "running"
    /\ pc = "drain"
    /\ IF socks_ # 0 \/ ~stopping
       THEN pc' = "wait" /\ UNCHANGED runState
       ELSE runState' = "exited" /\ pc' = pc
    /\ UNCHANGED <<shutdownFlag, stopping, listenClosed, acceptPending, nextAcceptIdx,
                   acceptFdPool_, conn, socks_, leaked, lastCqe, checksAfterFlag>>
    /\ RingFrame

RingNext ==
    \/ \E ls \in Listeners, res \in AcceptResults, waiting \in SUBSET Fds :
         CqeAccept(ls, res, waiting)
    \/ \E c \in ConnIds, res \in ReadResults, more \in BOOLEAN, payload \in 0..1 :
         CqeRead(c, res, more, payload, FALSE)
    \/ \E c \in ConnIds, res \in CloseResults : CqeClose(c, res)
    \/ WaitReturns
    \/ RequestShutdown
    \/ CheckShutdown
    \/ EndIteration

\* single-shot recv without recvmsg; the sends are not followed
PlainInit == RingInit /\ ~multishot /\ ~recvmsg

SpecRing == PlainInit /\ [][RingNext]_vars

\* every wait of the loop returns (each has a timeout) and the loop body runs on
SpecRingFair ==
    /\ SpecRing
    /\ WF_vars(WaitReturns)
    /\ WF_vars(CheckShutdown)
    /\ WF_vars(EndIteration)

----------------------------------------------------------------------------
(* Claims about the ring engine, checked under SpecRing and SpecRingFair *)

\* C11 as stated: for each listen socket, at every point between
\* completion-handling steps of the running engine, exactly one accept
\* submission is pending, never zero and never two.
C11_ExactlyOneAccept ==
    runState = "running" => \A ls \in Listeners : acceptPending[ls] = 1

\* C11, amended: while the engine runs and is not stopping, exactly one accept
\* submission is pending for each listen socket between completion-handling
\* steps; once it is stopping a completed accept is not posted again, so zero
\* or one is pending, never two.
C11_OneAcceptUntilStopping ==
    runState = "running" =>
        \A ls \in Listeners :
            /\ acceptPending[ls] <= 1
            /\ ~stopping => acceptPending[ls] = 1

\* accepts completed on a running engine and each was posted again
C11_Witness ==
    /\ runState = "running"
    /\ ~stopping
    /\ lastCqe.kind = "accept"
    /\ socks_ >= 2
    /\ \A ls \in Listeners : acceptPending[ls] = 1

LiveFds == { conn[c].fd : c \in { x \in ConnIds : conn[x].st \in {"open", "closing"} } }

PoolFds == { acceptFdPool_[k] : k \in 1..Len(acceptFdPool_) }

ReservedFds == { nextAcceptIdx[ls] : ls \in Listeners }

\* C15: in fixed-file mode a close completion pushes the connection's index
\* back on the free stack if and only if its result is 0 or -EBADF, and an index
\* whose close completed with another result is never handed out again.
C15_RecycleIffClosed ==
    /\ (fixedFiles /\ lastCqe.kind = "close") =>
          /\ lastCqe.pushed <=> lastCqe.res \in {0, -EBADF}
          /\ lastCqe.pushed => acceptFdPool_[Len(acceptFdPool_)] = lastCqe.fd
    /\ leaked \cap (PoolFds \cup ReservedFds \cup LiveFds) = {}

\* an index leaked and accepts went on after it
C15_Witness ==
    /\ fixedFiles
    /\ leaked # {}
    /\ lastCqe.kind = "accept"
    /\ LiveFds # {}

C17_ShutdownExits ==
    /\ [](stopping => (shutdownFlag /\ \A ls \in Listeners : listenClosed[ls]))
    /\ [](checksAfterFlag <= 2)
    /\ []((runState = "running" /\ stopping) => (checksAfterFlag = 1 /\ (pc = "wait" => socks_ # 0)))
    /\ shutdownFlag ~> (runState # "running")

\* the loop gave up with connections still open
C17_Witness ==
    /\ runState = "exited"
    /\ checksAfterFlag = 2
    /\ socks_ > 0
    /\ \E c \in ConnIds : conn[c].st = "open"

\* C26: an accept completion with a negative result is fatal while the engine
\* is not stopping; while stopping it is absorbed: the engine goes on, no
\* Connection is created and no accept is posted.
C26_AcceptFailure ==
    /\ [][(lastCqe'.kind = "accept" /\ lastCqe'.res < 0 /\ acceptPending' # acceptPending)
            => IF stopping
               THEN /\ runState' = runState
                    /\ conn' = conn
                    /\ socks_' = socks_
                    /\ nextAcceptIdx' = nextAcceptIdx
                    /\ acceptFdPool_' = acceptFdPool_
                    /\ \E ls \in Listeners : acceptPending' = [acceptPending EXCEPT ![ls] = @ - 1]
               ELSE /\ runState' = "died"
                    /\ conn' = conn
                    /\ socks_' = socks_]_vars
    /\ []((lastCqe.kind = "accept" /\ lastCqe.res < 0 /\ ~stopping) => runState = "died")

\* a failed accept was absorbed while stopping and the engine still has sockets
C26_Witness ==
    /\ lastCqe.kind = "accept"
    /\ lastCqe.res < 0
    /\ stopping
    /\ runState = "running"
    /\ socks_ >= 1
    /\ \E ls \in Listeners : acceptPending[ls] = 0

----------------------------------------------------------------------------
(* The connections of one listen socket with every switch of the recv path  *)
(* (multishot, recvmsg, fixed files), their recvs and their sends            *)

SockInit == RingInit /\ ~nonblockAccept

SockNext ==
    \/ \E res \in AcceptResults : CqeAccept(1, res, {})
    \/ \E c \in ConnIds, res \in ReadResults, more \in BOOLEAN, payload \in 0..1,
          owes \in BOOLEAN :
         CqeRead(c, res, more, payload, owes)
    \/ \E c \in ConnIds, res \in WriteResults, fault \in BOOLEAN : CqeWrite(c, res, fault)
    \/ \E c \in ConnIds, res \in CloseResults : CqeClose(c, res)
    \/ WaitReturns
    \/ RequestShutdown
    \/ CheckShutdown
    \/ EndIteration

SpecSock == SockInit /\ [][SockNext]_vars

\* C21: once a Connection is Closing no recv of it is armed, so no completion
\* lets the engine feed its parser or post a recv, a send or a close for it;
\* it becomes Closed by the completion of its close only, and a Closed
\* Connection stays Closed (its place is taken by a new Connection at an accept
\* at most). For every combination of multishot, recvmsg and fixed files.
C21_ClosingIsQuiet ==
    /\ [](\A c \in ConnIds : conn[c].st \in {"closing", "freed"} => conn[c].reads = 0)
    /\ [][\A c \in ConnIds :
            conn[c].st = "closing" =>
                /\ conn'[c].st \in {"closing", "freed"}
                /\ conn'[c].sends <= conn[c].sends
                /\ conn'[c].st = "freed" =>
                      (fixedFiles /\ lastCqe'.kind = "close" /\ lastCqe'.who = c)]_vars
    /\ [][\A c \in ConnIds :
            conn[c].st = "freed" =>
                \/ conn'[c].st = "freed" /\ conn'[c].sends <= conn[c].sends
                \/ conn'[c].st = "open" /\ lastCqe'.kind = "accept" /\ conn[c].sends = 0]_vars
    /\ [][(lastCqe'.kind = "read" /\ lastCqe'.amount <= 0 /\ conn' # conn /\ runState' = "running")
            => conn'[lastCqe'.who].st = (IF fixedFiles THEN "closing" ELSE "freed")]_vars

\* a multishot recvmsg reported the end of the stream, the close was posted with
\* a send of the Connection still in flight, and the close completed
C21_Witness ==
    /\ multishot
    /\ recvmsg
    /\ fixedFiles
    /\ lastCqe.kind = "close"
    /\ conn[lastCqe.who].st = "freed"
    /\ conn[lastCqe.who].sends = 1

\* C22: between completion-handling steps every live Connection that is not
\* closing has exactly one recv armed, and none has two; after a read with an
\* amount > 0 the engine posts a recv if and only if multishot is off or the
\* completion does not carry F_MORE.
C22_OneRecvArmed ==
    /\ \A c \in ConnIds :
         /\ conn[c].reads <= 1
         /\ (conn[c].st = "open" /\ runState # "died") => conn[c].reads = 1
    /\ (lastCqe.kind = "read" /\ lastCqe.amount > 0) =>
         (lastCqe.posted <=> (~multishot \/ ~lastCqe.more))

\* a multishot recv delivered data with F_MORE and went on without a new recv
C22_Witness ==
    /\ multishot
    /\ lastCqe.kind = "read"
    /\ lastCqe.more
    /\ lastCqe.amount > 0
    /\ ~lastCqe.posted
    /\ conn[lastCqe.who].reads = 1

\* C27: the handling of a send completion with a negative result changes no
\* engine state: the engine runs on, no Connection is closed or freed, no
\* counter changes.
C27_SendFailureIgnored ==
    [][(lastCqe'.kind = "write" /\ lastCqe'.res < 0
          /\ conn'[lastCqe'.who].sends < conn[lastCqe'.who].sends)
        => /\ runState' = runState
           /\ \A c \in ConnIds : [conn'[c] EXCEPT !.sends = 0] = [conn[c] EXCEPT !.sends = 0]
           /\ socks_' = socks_
           /\ acceptFdPool_' = acceptFdPool_
           /\ acceptPending' = acceptPending
           /\ stopping' = stopping]_vars

----------------------------------------------------------------------------
(* The loop of IOUringRunner and the completion queue: which completions an   *)
(* iteration passes to processCqe and how far it moves the head. What the     *)
(* handlers do is left out, but that one may abort the process.               *)

LoopInit ==
    /\ fixedFiles = FALSE
    /\ nonblockAccept = FALSE
    /\ multishot = FALSE
    /\ recvmsg = FALSE
    /\ runState = "running"
    /\ pc = "wait"
    /\ shutdownFlag = FALSE
    /\ stopping = FALSE
    /\ listenClosed = [ls \in Listeners |-> FALSE]
    /\ acceptPending = <<>>
    /\ nextAcceptIdx = <<>>
    /\ acceptFdPool_ = <<>>
    /\ conn = <<>>
    /\ socks_ \in 0..1
    /\ leaked = {}
    /\ lastCqe = NoCqe
    /\ checksAfterFlag = 0
    /\ cqTail = 0
    /\ cqHead = 0
    /\ cqe_count = 0
    /\ seen = <<>>
    /\ ParserIdle
    /\ V1Idle
    /\ V2Idle
    /\ ConnIdle
    /\ EPollIdle
    /\ RecvIdle
    /\ FineIdle
    /\ MultiIdle
    /\ SetupIdle
    /\ StatsIdle

LoopFrame ==
    UNCHANGED <<fixedFiles, nonblockAccept, multishot, recvmsg, shutdownFlag, stopping,
                listenClosed, acceptPending, nextAcceptIdx, acceptFdPool_, conn, socks_, leaked,
                lastCqe, checksAfterFlag, pvars, v1vars, v2vars, cvars, evars, bvars, fvars, wvars, uvars, svars>>

\* the kernel posts a completion; at most MaxCqes are followed
KernelPost ==
    /\ runState = "running"
    /\ cqTail < MaxCqes
    /\ cqTail' = cqTail + 1
    /\ seen' = Append(seen, 0)
    /\ UNCHANGED <<runState, pc, cqHead, cqe_count>>
    /\ LoopFrame

\* the single-completion wait without io_uring_cqe_seen
LoopWaitNoSeen(path, dies) ==
    /\ runState = "running"
    /\ pc = "wait"
    /\ IF path = "wait" /\ cqHead < cqTail
       THEN /\ seen' = [seen EXCEPT ![cqHead + 1] = @ + 1]
            /\ IF dies
               THEN runState' = "died" /\ pc' = pc
               ELSE runState' = runState /\ pc' = "check"
       ELSE /\ ~dies
            /\ pc' = "check"
            /\ UNCHANGED <<runState, seen>>
    /\ UNCHANGED <<cqTail, cqHead, cqe_count>>
    /\ LoopFrame

\* the head of the loop body up to the shutdown test. path is the branch
\* taken: "overflow" (flushOverflow), "submit" (submitAndWait1, which leaves
\* the completion it is shown alone) or "wait": io_uring_wait_cqe_timeout
\* returns the completion at the head when there is one, it is passed to
\* processCqe and marked seen. dies: the handler aborts the process
LoopWait(path, dies) ==
    /\ runState = "running"
    /\ pc = "wait"
    /\ IF path = "wait" /\ cqHead < cqTail
       THEN /\ seen' = [seen EXCEPT ![cqHead + 1] = @ + 1]
            /\ IF dies
               THEN runState' = "died" /\ UNCHANGED <<pc, cqHead>>
               ELSE runState' = runState /\ pc' = "check" /\ cqHead' = cqHead + 1
       ELSE /\ ~dies
            /\ pc' = "check"
            /\ UNCHANGED <<runState, cqHead, seen>>
    /\ UNCHANGED <<cqTail, cqe_count>>
    /\ LoopFrame

\* one round of io_uring_for_each_cqe: the completion at head + cqe_count is
\* passed to processCqe; cqe_count++
DrainStep(dies) ==
    /\ runState = "running"
    /\ pc = "drain"
    /\ cqHead + cqe_count < cqTail
    /\ seen' = [seen EXCEPT ![cqHead + cqe_count + 1] = @ + 1]
    /\ IF dies
       THEN runState' = "died" /\ UNCHANGED cqe_count
       ELSE runState' = runState /\ cqe_count' = cqe_count + 1
    /\ UNCHANGED <<pc, cqTail, cqHead>>
    /\ LoopFrame

\* the iterator finds head + cqe_count equal to the tail:
\* io_uring_cq_advance(&ring, cqe_count), then the loop condition
DrainEnd ==
    /\ runState = "running"
    /\ pc = "drain"
    /\ cqHead + cqe_count = cqTail
    /\ cqHead' = cqHead + cqe_count
    /\ cqe_count' = 0
    /\ IF socks_ # 0 \/ ~stopping
       THEN pc' = "wait" /\ UNCHANGED runState
       ELSE runState' = "exited" /\ pc' = pc
    /\ UNCHANGED <<cqTail, seen>>
    /\ LoopFrame

LoopNext ==
    \/ KernelPost
    \/ \E path \in {"overflow", "submit", "wait"}, dies \in BOOLEAN : LoopWait(path, dies)
    \/ RequestShutdown
    \/ CheckShutdown
    \/ \E dies \in BOOLEAN : DrainStep(dies)
    \/ DrainEnd

SpecLoop == LoopInit /\ [][LoopNext]_vars

\* C28: no completion is ever passed to processCqe twice, the completions
\* dispatched are exactly those below head + cqe_count, so none is stepped
\* over, and every one below the head was dispatched once. The wait moves the
\* head by one exactly when it dispatched one completion, and the drain runs
\* until every completion in the queue has been dispatched once and then
\* moves the head by cqe_count, the number it dispatched, onto the tail.
C28_EachCqeOnce ==
    /\ [](/\ Len(seen) = cqTail
          /\ cqHead + cqe_count <= cqTail
          /\ \A i \in 1..Len(seen) :
                /\ seen[i] <= 1
                /\ i <= cqHead => seen[i] = 1
                /\ runState # "died" => (seen[i] = 1 <=> i <= cqHead + cqe_count))
    /\ [][/\ (pc = "wait" /\ runState' # "died") =>
                /\ cqHead' - cqHead \in {0, 1}
                /\ \A i \in 1..Len(seen) : seen'[i] - seen[i] =
                                              (IF i = cqHead' /\ cqHead' # cqHead THEN 1 ELSE 0)
          /\ (pc = "drain" /\ cqe_count' < cqe_count) =>
                /\ cqHead' = cqHead + cqe_count
                /\ cqHead' = cqTail
                /\ \A i \in 1..cqTail : seen[i] = 1]_vars

\* the wait consumed the first completion and the drain has dispatched the
\* two behind it
C28_Witness ==
    /\ runState = "running"
    /\ pc = "drain"
    /\ cqHead = 1
    /\ cqe_count = 2
    /\ seen = <<1, 1, 1>>

----------------------------------------------------------------------------
(* One connection of the ring engine: a recv completion is parsed and the     *)
(* reply is posted (BasicSock::didRead and the send part of processRead)      *)

\* processRead posting the send without sock->didSend()
PostSendKeepsOwed(owed, log, at) ==
    IF owed.to_write > 0
    THEN [do_send |-> owed,
          sends |-> Append(log, [len |-> owed.to_write, count |-> owed.count, fed |-> at])]
    ELSE [do_send |-> owed, sends |-> log]

\* if (sends.to_write > 0) { finishedRequests(sends.count); addSend(sock,
\* sends.to_write); sock->didSend(); }: at is the number of bytes of the stream
\* handled when the send is posted
PostSend(owed, log, at) ==
    IF owed.to_write > 0
    THEN [do_send |-> NoResults,
          sends |-> Append(log, [len |-> owed.to_write, count |-> owed.count, fed |-> at])]
    ELSE [do_send |-> owed, sends |-> log]

ConnInit ==
    /\ frames \in FrameSeqs
    /\ parser = NewParser
    /\ fed = 0
    /\ chunking = "none"
    /\ total = NoResults
    /\ overread = FALSE
    /\ bytewise = NoCall
    /\ whole = NoCall
    /\ do_send = NoResults
    /\ sends = <<>>
    /\ V1Idle
    /\ V2Idle
    /\ RingIdle
    /\ EPollIdle
    /\ RecvIdle
    /\ FineIdle
    /\ CqIdle
    /\ MultiIdle
    /\ SetupIdle
    /\ StatsIdle

\* processRead of a recv completion that carries the next n bytes of the
\* stream: didRead hands them to the parser and adds the result to do_send,
\* then the send is posted
RecvCompletion(n) ==
    /\ n >= 1
    /\ fed + n <= Len(Stream(frames))
    /\ \E o \in consume(parser, SubSeq(Stream(frames), fed + 1, fed + n)) :
         /\ parser' = o.parser
         /\ total' = AddResults(total, o.ret)
         /\ overread' = (overread \/ o.overread)
         /\ LET p == PostSend(AddResults(do_send, o.ret), sends, fed + n)
            IN do_send' = p.do_send /\ sends' = p.sends
    /\ fed' = fed + n
    /\ chunking' = IF chunking = "none" /\ n = Len(Stream(frames)) THEN "whole" ELSE "parts"
    /\ UNCHANGED <<frames, bytewise, whole>>
    /\ UNCHANGED <<v1vars, v2vars, rvars, evars, bvars, fvars, qvars, wvars, uvars, svars>>

ConnNext == \E n \in 1..(MaxFrames * (HeaderSize + MaxLen)) : RecvCompletion(n)

SpecConn == ConnInit /\ [][ConnNext]_vars

RECURSIVE SumLens(_)
SumLens(log) == IF log = <<>> THEN 0 ELSE Head(log).len + SumLens(Tail(log))

RECURSIVE SumSent(_)
SumSent(log) == IF log = <<>> THEN 0 ELSE Head(log).count + SumSent(Tail(log))

\* C12: reply size equality. For the frames received so far on the connection,
\* the bytes posted for sending are the sum of their reply sizes, frame by
\* frame in order: every send answers the frames that follow those already
\* answered, with the sum of their reply sizes.
C12_ReplySizes ==
    /\ SumLens(sends) = SumReplies(frames, Ended)
    /\ \A k \in 1..Len(sends) :
         LET before == SumSent(SubSeq(sends, 1, k - 1))
         IN sends[k].len = SumReplies(frames, (before + 1)..(before + sends[k].count))

----------------------------------------------------------------------------
(* EPollRunner: one connection, its owed reply bytes and its write interest.  *)
(* What a read adds to to_write is whatever the parser reports.               *)

\* the send loop of doWrite: each send takes at most rcvbuff.size() bytes; the
\* socket takes room bytes before EAGAIN; with fails, the send that follows the
\* first fails for another reason
RECURSIVE SendLoop(_, _, _, _)
SendLoop(owed, room, fails, first) ==
    IF owed = 0 THEN [to_write |-> 0, room |-> room, how |-> "drained"]
    ELSE IF fails /\ ~first THEN [to_write |-> 0, room |-> room, how |-> "failed"]
    ELSE IF room = 0 THEN [to_write |-> owed, room |-> 0, how |-> "blocked"]
    ELSE LET res == Min(Min(owed, RcvBuffSize), room)
         IN SendLoop(owed - Min(owed, res), room - res, fails, FALSE)

\* doWrite that arms write interest but never takes it back
doWriteNoDisarm(ed, room, fails) ==
    LET w == SendLoop(ed.to_write, room, fails, ~fails)
        arm == ~ed.write_in_epoll /\ w.to_write # 0
    IN [to_write |-> w.to_write, room |-> w.room,
        last |-> [how |-> w.how, ctl |-> IF arm THEN "add_write" ELSE "none"],
        write_in_epoll |-> (ed.write_in_epoll \/ arm),
        armed |-> (ed.armed \/ arm)]

\* EPollRunner::doWrite(ed): the send loop, then epoll_ctl(EPOLL_CTL_MOD) to
\* EPOLLIN when nothing is owed any more and write interest is on
\* ("epoll_remove_write"), or to EPOLLIN | EPOLLOUT when bytes are owed and it
\* is off ("epoll_add_write")
doWrite(ed, room, fails) ==
    LET w == SendLoop(ed.to_write, room, fails, ~fails)
        disarm == ed.write_in_epoll /\ w.to_write = 0
        arm == ~disarm /\ ~ed.write_in_epoll /\ w.to_write # 0
    IN [to_write |-> w.to_write, room |-> w.room,
        last |-> [how |-> w.how,
                  ctl |-> IF disarm THEN "remove_write" ELSE IF arm THEN "add_write" ELSE "none"],
        write_in_epoll |-> IF disarm THEN FALSE ELSE IF arm THEN TRUE ELSE ed.write_in_epoll,
        armed |-> IF disarm THEN FALSE ELSE IF arm THEN TRUE ELSE ed.armed]

EPollData == [to_write |-> to_write, write_in_epoll |-> write_in_epoll, armed |-> armed]

\* the constructor, one connection accepted by doAccept (EPOLLIN | EPOLLET)
EPollInit ==
    /\ batch_send \in BOOLEAN
    /\ erun = "running"
    /\ epc = "wait"
    /\ alive = TRUE
    /\ to_write = 0
    /\ write_in_epoll = FALSE
    /\ armed = FALSE
    /\ queued = FALSE
    /\ sockRoom = SockBuf
    /\ lastWrite = NoWrite
    /\ ParserIdle
    /\ V1Idle
    /\ V2Idle
    /\ RingIdle
    /\ ConnIdle
    /\ RecvIdle
    /\ FineIdle
    /\ CqIdle
    /\ MultiIdle
    /\ SetupIdle
    /\ StatsIdle

EPollFrame == UNCHANGED <<batch_send, pvars, v1vars, v2vars, rvars, cvars, bvars, fvars, qvars, wvars, uvars, svars>>

\* the loop condition and epoll_wait: the wait returns (1 s timeout); with
\* shutdown, a shutdown flag is seen by the loop condition
EPollWait(shutdown) ==
    /\ erun = "running"
    /\ epc = "wait"
    /\ IF shutdown THEN erun' = "exited" /\ epc' = epc
       ELSE erun' = erun /\ epc' = "dispatch"
    /\ UNCHANGED <<alive, to_write, write_in_epoll, armed, queued, sockRoom, lastWrite>>
    /\ EPollFrame

\* the wait reported no event for the connection
NoEvent ==
    /\ erun = "running"
    /\ epc = "dispatch"
    /\ epc' = "drain"
    /\ UNCHANGED <<erun, alive, to_write, write_in_epoll, armed, queued, sockRoom, lastWrite>>
    /\ EPollFrame

\* doSocket(ed, events, write_queue, reads). in: EPOLLIN is set; doRead then
\* reads until recv returns a short count (the parser owes got more bytes) or,
\* with eof, until recv returns 0 or an error and the connection is deleted.
\* out: EPOLLOUT is set, which takes write interest and a writable socket.
DoSocket(in, out, got, eof, fails) ==
    /\ erun = "running"
    /\ epc = "dispatch"
    /\ alive
    /\ in \/ out
    /\ out => (armed /\ sockRoom > 0)
    /\ ~in => (got = 0 /\ ~eof)
    /\ to_write + got <= MaxOwed
    /\ epc' = "drain"
    /\ IF in /\ eof
       THEN /\ alive' = FALSE
            /\ armed' = FALSE
            /\ UNCHANGED <<to_write, write_in_epoll, queued, sockRoom, lastWrite>>
       ELSE LET owed == to_write + got
            IN IF out \/ (owed # 0 /\ ~batch_send)
               THEN LET w == doWrite([EPollData EXCEPT !.to_write = owed], sockRoom, fails)
                    IN /\ to_write' = w.to_write
                       /\ write_in_epoll' = w.write_in_epoll
                       /\ armed' = w.armed
                       /\ sockRoom' = w.room
                       /\ lastWrite' = w.last
                       /\ UNCHANGED <<alive, queued>>
               ELSE /\ to_write' = owed
                    /\ queued' = (queued \/ owed # 0)
                    /\ UNCHANGED <<alive, write_in_epoll, armed, sockRoom, lastWrite>>
    /\ UNCHANGED erun
    /\ EPollFrame

\* the loop over write_queue after the dispatch loop, and write_queue.clear()
DrainQueue(fails) ==
    /\ erun = "running"
    /\ epc = "drain"
    /\ epc' = "wait"
    /\ queued' = FALSE
    /\ IF queued /\ alive /\ to_write # 0
       THEN LET w == doWrite(EPollData, sockRoom, fails)
            IN /\ to_write' = w.to_write
               /\ write_in_epoll' = w.write_in_epoll
               /\ armed' = w.armed
               /\ sockRoom' = w.room
               /\ lastWrite' = w.last
       ELSE /\ ~fails
            /\ UNCHANGED <<to_write, write_in_epoll, armed, sockRoom, lastWrite>>
    /\ UNCHANGED <<erun, alive>>
    /\ EPollFrame

\* the peer reads k bytes of the replies: the socket takes k more
PeerReads(k) ==
    /\ erun = "running"
    /\ alive
    /\ k >= 1
    /\ sockRoom + k <= SockBuf
    /\ sockRoom' = sockRoom + k
    /\ UNCHANGED <<erun, epc, alive, to_write, write_in_epoll, armed, queued, lastWrite>>
    /\ EPollFrame

\* doAccept: the next connection, a new EPollData
DoAccept ==
    /\ erun = "running"
    /\ epc = "dispatch"
    /\ ~alive
    /\ alive' = TRUE
    /\ to_write' = 0
    /\ write_in_epoll' = FALSE
    /\ armed' = FALSE
    /\ sockRoom' = SockBuf
    /\ lastWrite' = NoWrite
    /\ epc' = "drain"
    /\ UNCHANGED <<erun, queued>>
    /\ EPollFrame

EPollNext ==
    \/ \E shutdown \in BOOLEAN : EPollWait(shutdown)
    \/ NoEvent
    \/ \E in, out, eof, fails \in BOOLEAN, got \in 0..MaxOwed : DoSocket(in, out, got, eof, fails)
    \/ \E fails \in BOOLEAN : DrainQueue(fails)
    \/ \E k \in 1..SockBuf : PeerReads(k)
    \/ DoAccept

SpecEPoll == EPollInit /\ [][EPollNext]_vars

\* the loop body runs on: the wait returns and the dispatch and drain loops end
SpecEPollFair ==
    /\ SpecEPoll
    /\ WF_vars(\E shutdown \in BOOLEAN : EPollWait(shutdown))
    /\ WF_vars(NoEvent \/ DoAccept
               \/ \E in, out, eof, fails \in BOOLEAN, got \in 0..MaxOwed :
                    DoSocket(in, out, got, eof, fails))
    /\ WF_vars(\E fails \in BOOLEAN : DrainQueue(fails))

\* C18: in the readiness engine, batch_send on or off, a connection whose owed
\* bytes cannot all be written because send would block gets write interest
\* armed on the notifier; once a doWrite has written all owed bytes write
\* interest is off again, and it is never armed with nothing owed.
C18_WriteInterest ==
    /\ []((alive /\ armed) => to_write > 0)
    /\ [](alive => (armed <=> write_in_epoll))
    /\ []((alive /\ lastWrite.how = "blocked") => (armed /\ to_write > 0))
    /\ []((alive /\ lastWrite.how \in {"drained", "failed"}) => ~armed)
    /\ (alive /\ to_write > 0) ~> (armed \/ to_write = 0 \/ ~alive)

\* with batch_send, a write that drained what a blocked write had left took
\* write interest off the notifier
C18_Witness ==
    /\ batch_send
    /\ alive
    /\ lastWrite = [how |-> "drained", ctl |-> "remove_write"]
    /\ ~armed
    /\ to_write = 0

----------------------------------------------------------------------------
(* The readiness engine with several connections and several events per wait: *)
(* the dispatch loop, the write queue and its drain. An EPollData is known by *)
(* its address in Eds; a deleted address may be handed out again by new.      *)

Eds == 1..MaxEds

\* freed memory
\* freed memory; mask is the event mask the notifier holds for the descriptor
\* of the connection: "none" when it is not registered
NoEd == [to_write |-> 0, write_in_epoll |-> FALSE, mask |-> "none"]

\* a new EPollData, registered by doAccept with EPOLLIN | EPOLLET
NewEd == [to_write |-> 0, write_in_epoll |-> FALSE, mask |-> "in_et"]

NoDispatch == [c |-> 0, in |-> FALSE, out |-> FALSE, owed |-> 0, closed |-> FALSE, dropped |-> 0]

NoIter ==
    [attempts |-> [c \in Eds |-> 0], queued |-> {}, deleted |-> {}, after |-> {},
     last |-> NoDispatch]

\* doWrite that leaves the notifier alone after a send error
WriteEdKeepsArmed(ed, room, fails) ==
    LET w == doWrite([to_write |-> ed.to_write, write_in_epoll |-> ed.write_in_epoll,
                      armed |-> ed.mask = "in_out"], room, fails)
    IN IF w.last.how = "failed"
       THEN [ed EXCEPT !.to_write = 0]
       ELSE [to_write |-> w.to_write, write_in_epoll |-> w.write_in_epoll,
             mask |-> IF w.last.ctl = "remove_write" THEN "in"
                      ELSE IF w.last.ctl = "add_write" THEN "in_out" ELSE ed.mask]

\* doWrite on the EPollData ed, with the event mask of its descriptor
WriteEd(ed, room, fails) ==
    LET w == doWrite([to_write |-> ed.to_write, write_in_epoll |-> ed.write_in_epoll,
                      armed |-> ed.mask = "in_out"], room, fails)
    IN [to_write |-> w.to_write, write_in_epoll |-> w.write_in_epoll,
        mask |-> IF w.last.ctl = "remove_write" THEN "in"
                 ELSE IF w.last.ctl = "add_write" THEN "in_out" ELSE ed.mask]

ListenEvent == [type |-> "kAccept", c |-> 0, in |-> TRUE, out |-> FALSE]

\* the events epoll_wait may report: one per registered descriptor, EPOLLOUT
\* only for a connection whose mask has it
SockEvents ==
    {ev \in [type : {"kSocket"}, c : {c \in Eds : eds[c].mask # "none"}, in : BOOLEAN,
              out : BOOLEAN] :
        /\ ev.in \/ ev.out
        /\ ev.out => eds[ev.c].mask = "in_out"}

RECURSIVE EventSeqs(_, _)
EventSeqs(pool, n) ==
    IF n = 0 THEN {<<>>}
    ELSE {<<>>} \cup UNION {{<<ev>> \o rest :
                               rest \in EventSeqs({o \in pool : o.type # ev.type \/ o.c # ev.c},
                                                  n - 1)} : ev \in pool}

QueueSet == {write_queue[i] : i \in 1..Len(write_queue)}

\* the constructor and addListenSock: no connection yet
MultiInit ==
    /\ batch_send \in BOOLEAN
    /\ erun = "running"
    /\ epc = "wait"
    /\ alive = FALSE
    /\ to_write = 0
    /\ write_in_epoll = FALSE
    /\ armed = FALSE
    /\ queued = FALSE
    /\ sockRoom = 0
    /\ lastWrite = NoWrite
    /\ sockets_ = {}
    /\ eds = [c \in Eds |-> NoEd]
    /\ events = <<>>
    /\ write_queue = <<>>
    /\ iter = NoIter
    /\ ParserIdle
    /\ V1Idle
    /\ V2Idle
    /\ RingIdle
    /\ ConnIdle
    /\ RecvIdle
    /\ FineIdle
    /\ CqIdle
    /\ SetupIdle
    /\ StatsIdle

MultiFrame ==
    UNCHANGED <<batch_send, alive, to_write, write_in_epoll, armed, queued, sockRoom, lastWrite,
                fixedFiles, nonblockAccept, multishot, recvmsg, runState, pc, shutdownFlag,
                stopping, listenClosed, acceptPending, nextAcceptIdx, acceptFdPool_, conn,
                leaked, lastCqe, checksAfterFlag, pvars, v1vars, v2vars, cvars, bvars, fvars,
                qvars, uvars, svars>>

\* the loop condition and epoll_wait, which fills events[0..nevents)
WaitEvents(evs, shutdown) ==
    /\ erun = "running"
    /\ epc = "wait"
    /\ IF shutdown
       THEN evs = <<>> /\ erun' = "exited" /\ UNCHANGED <<epc, events, iter>>
       ELSE /\ Len(evs) <= MaxEvents
            /\ \A i \in 1..Len(evs) : evs[i] \in SockEvents \cup {ListenEvent}
            /\ \A i, j \in 1..Len(evs) :
                  (evs[i].type = evs[j].type /\ evs[i].c = evs[j].c) => i = j
            /\ events' = evs
            /\ iter' = NoIter
            /\ epc' = "dispatch"
            /\ erun' = erun
    /\ UNCHANGED <<sockets_, eds, write_queue, socks_>>
    /\ MultiFrame

\* doAccept: accept4 until EAGAIN; each connection gets a new EPollData, at
\* one of the addresses in at, is registered, inserted and counted
DispatchAccept(at) ==
    /\ erun = "running"
    /\ epc = "dispatch"
    /\ events # <<>>
    /\ Head(events).type = "kAccept"
    /\ at \subseteq Eds \ sockets_
    /\ events' = Tail(events)
    /\ sockets_' = sockets_ \cup at
    /\ eds' = [c \in Eds |-> IF c \in at THEN NewEd ELSE eds[c]]
    /\ socks_' = socks_ + Cardinality(at)
    /\ iter' = [iter EXCEPT !.last = NoDispatch]
    /\ UNCHANGED <<erun, epc, write_queue>>
    /\ MultiFrame

\* doSocket after the read that ignores what doRead returned
doSocketAfterDelete(closed, out, owed) ==
    IF out \/ (owed # 0 /\ ~batch_send) THEN "write"
    ELSE IF owed # 0 THEN "queue"
    ELSE "none"

\* doSocket after the read with every write left to the queue
doSocketAllQueued(closed, out, owed) ==
    IF closed THEN "return"
    ELSE IF owed # 0 THEN "queue"
    ELSE "none"

\* doSocket after the read: closed is doRead's return value, out is EPOLLOUT
\* in the event, owed is ed->to_write
doSocket(closed, out, owed) ==
    IF closed THEN "return"
    ELSE IF out \/ (owed # 0 /\ ~batch_send) THEN "write"
    ELSE IF owed # 0 THEN "queue"
    ELSE "none"

\* doSocket(ed, events[i].events, write_queue, reads) for the next event.
\* With EPOLLIN doRead reads, the parser owing got more bytes, until recv
\* returns a short count or EAGAIN or, with eof, 0 or another error:
\* EPOLL_CTL_DEL, delSock(), close(fd), sockets_.erase(ed), delete ed.
\* A doWrite finds room bytes of room in the socket, or fails.
DispatchSocket(got, eof, room, fails) ==
    /\ erun = "running"
    /\ epc = "dispatch"
    /\ events # <<>>
    /\ Head(events).type = "kSocket"
    /\ LET ev == Head(events)
           c == ev.c
           gone == c \notin sockets_ \/ c \in iter.deleted
           closed == ev.in /\ eof
           owed == eds[c].to_write + got
           act == doSocket(closed, ev.out, owed)
           read == [eds[c] EXCEPT !.to_write = owed]
           w == WriteEd(read, room, fails)
           used == IF gone \/ (closed /\ act # "return")
                   THEN [iter EXCEPT !.after = @ \cup {c}] ELSE iter
           done == IF closed THEN [used EXCEPT !.deleted = @ \cup {c}] ELSE used
           last == [c |-> c, in |-> ev.in, out |-> ev.out, owed |-> IF closed THEN 0 ELSE owed,
                    closed |-> closed, dropped |-> IF closed THEN owed ELSE 0]
       IN /\ ~ev.in => (got = 0 /\ ~eof)
          /\ owed <= MaxOwedEach
          /\ act # "write" => (room = 0 /\ ~fails)
          /\ events' = Tail(events)
          /\ sockets_' = IF closed THEN sockets_ \ {c} ELSE sockets_
          /\ socks_' = IF closed THEN socks_ - 1 ELSE socks_
          /\ eds' = IF closed THEN [eds EXCEPT ![c] = NoEd]
                    ELSE IF act = "write"
                    THEN [eds EXCEPT ![c] = w]
                    ELSE [eds EXCEPT ![c] = read]
          /\ write_queue' = IF act = "queue" THEN Append(write_queue, c) ELSE write_queue
          /\ iter' = [done EXCEPT !.last = last,
                                  !.attempts[c] = @ + (IF act = "write" THEN 1 ELSE 0),
                                  !.queued = @ \cup (IF act = "queue" THEN {c} ELSE {})]
    /\ UNCHANGED <<erun, epc>>
    /\ MultiFrame

\* the dispatch loop is through
DispatchDone ==
    /\ erun = "running"
    /\ epc = "dispatch"
    /\ events = <<>>
    /\ epc' = "drain"
    /\ UNCHANGED <<erun, sockets_, eds, events, write_queue, iter, socks_>>
    /\ MultiFrame

\* one round of the loop over write_queue:
\* if (!sockets_.count(ed) || !ed->to_write) continue; doWrite(ed);
DrainWrite(room, fails) ==
    /\ erun = "running"
    /\ epc = "drain"
    /\ write_queue # <<>>
    /\ LET c == Head(write_queue)
           writes == c \in sockets_ /\ eds[c].to_write # 0
           w == WriteEd(eds[c], room, fails)
       IN /\ ~writes => (room = 0 /\ ~fails)
          /\ write_queue' = Tail(write_queue)
          /\ eds' = IF writes THEN [eds EXCEPT ![c] = w] ELSE eds
          /\ iter' = [iter EXCEPT !.attempts[c] = @ + (IF writes THEN 1 ELSE 0),
                                  !.after = @ \cup (IF c \in iter.deleted THEN {c} ELSE {})]
    /\ UNCHANGED <<erun, epc, sockets_, events, socks_>>
    /\ MultiFrame

\* write_queue.clear() and the end of the loop body
DrainDone ==
    /\ erun = "running"
    /\ epc = "drain"
    /\ write_queue = <<>>
    /\ epc' = "wait"
    /\ UNCHANGED <<erun, sockets_, eds, events, write_queue, iter, socks_>>
    /\ MultiFrame

MultiNext ==
    \/ \E shutdown \in BOOLEAN :
          \E evs \in (IF epc = "wait" /\ erun = "running" /\ ~shutdown
                      THEN EventSeqs(SockEvents \cup {ListenEvent}, MaxEvents) ELSE {<<>>}) :
             WaitEvents(evs, shutdown)
    \/ \E at \in SUBSET Eds : DispatchAccept(at)
    \/ \E got \in 0..MaxOwedEach, eof, fails \in BOOLEAN, room \in 0..MaxOwedEach :
          DispatchSocket(got, eof, room, fails)
    \/ DispatchDone
    \/ \E room \in 0..MaxOwedEach, fails \in BOOLEAN : DrainWrite(room, fails)
    \/ DrainDone

SpecMulti == MultiInit /\ [][MultiNext]_vars

\* C29: when recv on a connection of the readiness engine returns 0 or an
\* error other than EAGAIN, that dispatch takes the connection off the
\* notifier and out of sockets_, frees it with its owed bytes unwritten, and
\* lowers socks_ by exactly one, with no doWrite and no queueing for it and
\* every other connection left as it was; for the rest of the iteration the
\* deleted connection is neither in write_queue nor among the events still to
\* be dispatched, and nothing uses it. socks_ is always the size of
\* sockets_, and the notifier holds exactly the connections in sockets_.
C29_CloseOnEof ==
    /\ [](/\ socks_ = Cardinality(sockets_)
          /\ sockets_ = {c \in Eds : eds[c].mask # "none"}
          /\ \A c \in Eds \ sockets_ : eds[c] = NoEd
          /\ iter.after = {}
          /\ \A c \in iter.deleted :
                /\ c \notin QueueSet
                /\ iter.attempts[c] = 0
                /\ \A i \in 1..Len(events) : events[i].type = "kSocket" => events[i].c # c)
    /\ [][(epc = "dispatch" /\ events # <<>> /\ events' # events /\ iter'.last.closed) =>
             LET c == Head(events).c
             IN /\ c \in sockets_
                /\ sockets_' = sockets_ \ {c}
                /\ socks_' = socks_ - 1
                /\ eds' = [eds EXCEPT ![c] = NoEd]
                /\ iter'.last.dropped >= eds[c].to_write
                /\ iter'.attempts = iter.attempts
                /\ write_queue' = write_queue
                /\ iter'.deleted = iter.deleted \cup {c}]_vars

\* a connection that owed bytes was closed by its read while another stays
\* open and is queued for its write
C29_Witness ==
    /\ batch_send
    /\ iter.last.closed
    /\ iter.last.dropped > 0
    /\ socks_ = 1
    /\ iter.queued # {}
    /\ epc = "drain"

\* C30: without batch_send, a dispatch that leaves the connection open with
\* bytes owed calls doWrite for it in that same dispatch, before the next
\* event, and nothing is ever queued. With batch_send, a dispatch of a
\* readable, not writable event sends nothing and queues the connection when
\* it owes bytes; no queued connection is written while events are still
\* dispatched; when the loop body ends every connection queued in it has had
\* exactly one doWrite, all of them being still open with bytes owed when
\* their turn came, and the queue is empty before the next wait.
C30_WritePolicy ==
    /\ [](/\ ~batch_send => (write_queue = <<>> /\ iter.queued = {})
          /\ epc = "wait" => write_queue = <<>>
          /\ epc = "dispatch" => \A c \in iter.queued : iter.attempts[c] = 0
          /\ \A c \in Eds : iter.attempts[c] <= 1
          /\ QueueSet \subseteq iter.queued
          /\ QueueSet \subseteq {c \in sockets_ : eds[c].to_write # 0}
          /\ \A i, j \in 1..Len(write_queue) : write_queue[i] = write_queue[j] => i = j)
    /\ [][(epc = "dispatch" /\ events # <<>> /\ events' # events /\ iter'.last.c # 0
            /\ ~iter'.last.closed) =>
             LET c == iter'.last.c
                 ev == iter'.last
             IN /\ (~batch_send /\ ev.owed > 0) =>
                       (iter'.attempts[c] = iter.attempts[c] + 1 /\ events' = Tail(events))
                /\ (batch_send /\ ev.in /\ ~ev.out) =>
                       /\ iter'.attempts = iter.attempts
                       /\ eds'[c].to_write = ev.owed
                       /\ write_queue' = IF ev.owed > 0 THEN Append(write_queue, c)
                                         ELSE write_queue]_vars
    /\ [][(epc = "drain" /\ epc' = "wait") =>
             \A c \in iter.queued : iter.attempts[c] = 1]_vars

\* with batch_send, two connections were queued by their reads and each had
\* its one doWrite in the drain
C30_Witness ==
    /\ batch_send
    /\ epc = "wait"
    /\ Cardinality(iter.queued) = 2
    /\ \A c \in iter.queued : iter.attempts[c] = 1

----------------------------------------------------------------------------
(* BufferProviderV2 and the kernel side by side: the kernel takes descriptors *)
(* between head and the published tail while returnIndex writes descriptors   *)
(* store by store and then publishes the tail. Each ring_->bufs[] entry is    *)
(* a descriptor {bid, addr, len}; addr is the index of the slot it points to. *)

\* a null pointer in a zero-filled descriptor
NullAddr == -1

\* sizePerBuffer_ = addAlignment(rx_cfg.recv_size), a multiple of kAlignment
sizePerBuffer_ == 32

ZeroEntry == [bid |-> 0, addr |-> NullAddr, len |-> 0]

ringSizeFine == RingSizeFrom(1, FineRingCount)

SlotFine(t) == (t % ringSizeFine) + 1

NextField(f) == IF f = "bid" THEN "addr" ELSE IF f = "addr" THEN "len" ELSE "bid"

\* populate that leaves the address of the descriptor as it was
populateFieldNoAddr(e, i, f) ==
    IF f = "bid" THEN [e EXCEPT !.bid = i]
    ELSE IF f = "addr" THEN e
    ELSE [e EXCEPT !.len = sizePerBuffer_]

\* one store of populate(b, i): b.bid = i; b.addr = getData(i); b.len = sizePerBuffer_
populateField(e, i, f) ==
    IF f = "bid" THEN [e EXCEPT !.bid = i]
    ELSE IF f = "addr" THEN [e EXCEPT !.addr = i]
    ELSE [e EXCEPT !.len = sizePerBuffer_]

populate(e, i) == populateField(populateField(populateField(e, i, "bid"), i, "addr"), i, "len")

\* the constructor: every entry is zeroed and populated, then the tail is published
V2FineInit ==
    /\ tailCached_ = FineRingCount
    /\ ringTail = FineRingCount
    /\ prevTail = 0
    /\ cachedIndices = 0
    /\ indices = <<>>
    /\ ringBufs = [k \in 1..ringSizeFine |->
                     IF k - 1 < FineRingCount THEN populate(ZeroEntry, k - 1) ELSE ZeroEntry]
    /\ kernelHead = 0
    /\ cq = <<>>
    /\ flush = NoFlush
    /\ ParserIdle
    /\ V1Idle
    /\ RingIdle
    /\ ConnIdle
    /\ EPollIdle
    /\ RecvIdle
    /\ CqIdle
    /\ MultiIdle
    /\ SetupIdle
    /\ StatsIdle

FineFrame == UNCHANGED <<pvars, v1vars, rvars, cvars, evars, qvars, wvars, uvars, svars>>

\* the kernel completes a recv with the descriptor at its head; at most
\* MaxTakes completions are followed
KernelTake ==
    /\ kernelHead # ringTail
    /\ kernelHead < MaxTakes
    /\ cq' = Append(cq, ringBufs[SlotFine(kernelHead)])
    /\ kernelHead' = (kernelHead + 1) % Uint16
    /\ UNCHANGED <<tailCached_, ringTail, prevTail, cachedIndices, indices, ringBufs, flush,
                   lastRecv>>
    /\ FineFrame

\* processRead of the oldest completion: returnIndex when recycleBufferIdx > 0;
\* returnIndex stages the index and, when 32 are staged, enters its write loop
HandleRecv ==
    /\ cq # <<>>
    /\ flush = NoFlush
    /\ cq' = Tail(cq)
    /\ LET b == Head(cq).bid
       IN /\ lastRecv' = [bid |-> b, returns |-> IF b > 0 THEN 1 ELSE 0]
          /\ IF b > 0
             THEN /\ indices' = Append(indices, b)
                  /\ IF Len(indices) + 1 < IndicesSize
                     THEN cachedIndices' = cachedIndices + 1 /\ flush' = flush
                     ELSE cachedIndices' = 0 /\ flush' = [k |-> 1, field |-> "bid"]
             ELSE UNCHANGED <<indices, cachedIndices, flush>>
    /\ UNCHANGED <<tailCached_, ringTail, prevTail, ringBufs, kernelHead>>
    /\ FineFrame

\* one store of the write loop; after the last store of a descriptor, ++tailCached_
PopulateStep ==
    /\ flush.k \in 1..IndicesSize
    /\ ringBufs' = [ringBufs EXCEPT ![SlotFine(tailCached_)] =
                       populateField(@, indices[flush.k], flush.field)]
    /\ IF flush.field = "len"
       THEN /\ tailCached_' = (tailCached_ + 1) % Uint16
            /\ flush' = [k |-> flush.k + 1, field |-> "bid"]
       ELSE /\ tailCached_' = tailCached_
            /\ flush' = [flush EXCEPT !.field = NextField(@)]
    /\ UNCHANGED <<ringTail, prevTail, cachedIndices, indices, kernelHead, cq, lastRecv>>
    /\ FineFrame

\* io_uring_smp_store_release(&ring_->tail, tailCached_), and returnIndex returns
PublishTail ==
    /\ flush.k = IndicesSize + 1
    /\ ringTail' = tailCached_
    /\ prevTail' = ringTail
    /\ indices' = <<>>
    /\ flush' = NoFlush
    /\ UNCHANGED <<tailCached_, cachedIndices, ringBufs, kernelHead, cq, lastRecv>>
    /\ FineFrame

V2FineNext ==
    \/ KernelTake
    \/ HandleRecv
    \/ PopulateStep
    \/ PublishTail

SpecV2Fine == V2FineInit /\ [][V2FineNext]_vars

\* the positions the kernel may consume: [head, tail) for the published tail
PublishedPos == { (kernelHead + k) % Uint16 : k \in 0..(((ringTail - kernelHead) % Uint16) - 1) }

StagedIds == { indices[k] : k \in 1..Len(indices) }

InFlightIds == { cq[k].bid : k \in 1..Len(cq) }

\* C19: at every time each ring entry at a position in [head, tail) of the
\* published tail holds a fully written descriptor {addr of slot bid, len =
\* size_per_buffer, bid}, no buffer id occurs twice among those positions, and
\* none of them is staged in the provider or held by an in-flight completion.
C19_PublishedValid ==
    /\ \A t \in PublishedPos :
         LET d == ringBufs[SlotFine(t)]
         IN /\ d.bid \in 0..(FineRingCount - 1)
            /\ d.addr = d.bid
            /\ d.len = sizePerBuffer_
            /\ d.bid \notin StagedIds \cup InFlightIds
    /\ \A t, u \in PublishedPos :
         t # u => ringBufs[SlotFine(t)].bid # ringBufs[SlotFine(u)].bid

\* returnIndex is in its write loop, past the end of the ring array, while the
\* kernel still has a published descriptor to take and a completion is in flight
C19_Witness ==
    /\ flush.k > 1
    /\ flush.field = "addr"
    /\ tailCached_ > ringSizeFine
    /\ PublishedPos # {}
    /\ cq # <<>>

\* C25: the shared-ring provider stores a new tail only in the returnIndex call
\* that stages the 32nd index; that store advances the 16-bit tail by exactly
\* 32 and the 32 staged ids stand at the consecutive ring positions from the
\* old tail on, in the order they were returned. Between the calls 0 to 31 ids
\* are staged, toProvideCount() (cachedIndices) is their number, and none of
\* them is at a position the kernel may take.
C25_PublishEvery32 ==
    /\ [](cachedIndices = Len(indices) /\ cachedIndices \in 0..(IndicesSize - 1))
    /\ [](\A t \in PublishedPos : ringBufs[Slot(t)] \notin StagedIds)
    /\ [][indices' # indices =>
            IF cachedIndices = IndicesSize - 1
            THEN /\ ringTail' = (ringTail + IndicesSize) % Uint16
                 /\ indices' = <<>>
                 /\ \A k \in 1..IndicesSize :
                       ringBufs'[Slot(ringTail + k - 1)] = Append(indices, lastRecv'.bid)[k]
            ELSE /\ ringTail' = ringTail
                 /\ ringBufs' = ringBufs
                 /\ indices' = Append(indices, lastRecv'.bid)]_vars
    /\ [][ringTail' # ringTail => (cachedIndices = IndicesSize - 1 /\ cachedIndices' = 0)]_vars

\* a publish has happened and indices are staged again for the next one
C25_Witness ==
    /\ prevTail # 0
    /\ ringTail = (prevTail + IndicesSize) % Uint16
    /\ cachedIndices = IndicesSize - 1
    /\ PublishedPos # {}

----------------------------------------------------------------------------
(* The bytes consume reads of its buffer *)

\* C34: consume(data, n) reads only bytes at offsets 0..n-1 of the buffer it
\* was given, also when a frame ends inside the buffer and bytes follow it.
C34_ReadsInsideBuffer == ~overread

----------------------------------------------------------------------------
(* Completions that name a Connection already deleted *)

\* C35: in the ring engine no read, write or close completion is handled
\* through a Connection that has already been freed, with or without fixed
\* files; a send completion with a negative result, the one kWrite looks at
\* the Connection for, never names a freed one.
C35_NoCqeForFreed ==
    [][\A c \in ConnIds :
          /\ (lastCqe'.kind = "write" /\ lastCqe'.who = c /\ lastCqe'.res < 0
                /\ conn'[c].sends < conn[c].sends) => conn[c].st # "freed"
          /\ (lastCqe'.kind = "read" /\ lastCqe'.who = c /\ conn[c].reads > 0
                /\ conn'[c] # conn[c]) => conn[c].st # "freed"
          /\ (lastCqe'.kind = "close" /\ lastCqe'.who = c /\ conn'[c] # conn[c])
                => conn[c].st # "freed"]_vars

----------------------------------------------------------------------------
(* socks() and the Connections that exist *)

\* C36: between completion-handling steps of the ring engine socks() is the
\* number of Connections allocated and not yet freed, with or without fixed
\* files, so it is zero again once every accepted connection has been closed.
C36_SocksCountsLive ==
    runState # "died" =>
        socks_ = Cardinality({c \in ConnIds : conn[c].st \in {"open", "closing"}})

----------------------------------------------------------------------------
(* The frames the ring engine counts *)

\* C37: after each read completion is handled, requestsRx_ of the ring
\* engine, the sum of the counts passed to finishedRequests when a send is
\* posted, is the number of frames the parser has reported complete so far,
\* which is what the readiness engine adds up consume by consume; also for
\* frames with reply_size = 0.
C37_RequestsCounted == SumSent(sends) = total.count

----------------------------------------------------------------------------
(* Write interest at the end of a loop iteration of the readiness engine *)

\* C38: when a loop iteration of the readiness engine has ended, every open
\* connection has write_in_epoll set, and EPOLLOUT in its mask on the
\* notifier, if and only if it owes bytes; with batch_send on or off, and
\* also after a send has failed.
C38_ArmedIffOwed ==
    (erun = "running" /\ epc = "wait") =>
        \A c \in sockets_ :
            /\ eds[c].write_in_epoll <=> eds[c].to_write > 0
            /\ eds[c].mask = "in_out" <=> eds[c].write_in_epoll

\* with batch_send, a queued connection was written in the drain, the send
\* blocked and write interest is armed at the end of the iteration, while a
\* second connection owes nothing
C38_Witness ==
    /\ batch_send
    /\ erun = "running"
    /\ epc = "wait"
    /\ \E c \in sockets_ :
          /\ c \in iter.queued
          /\ iter.attempts[c] = 1
          /\ eds[c].write_in_epoll
          /\ eds[c].to_write > 0
    /\ \E c \in sockets_ : eds[c].to_write = 0 /\ ~eds[c].write_in_epoll

----------------------------------------------------------------------------
(* The fixed-file indices: free, reserved for an accept, or of a Connection *)

ReservedIdx == { nextAcceptIdx[ls] : ls \in { l \in Listeners : nextAcceptIdx[l] >= 0 } }

FreeIdx == { acceptFdPool_[i] : i \in 1..Len(acceptFdPool_) }

\* C39: in fixed-file mode no index is at once in the free stack and the index
\* of a live Connection or reserved for a pending accept, no index is twice in
\* the free stack, and no two live Connections have the same index.
C39_IndicesDisjoint ==
    fixedFiles =>
        /\ FreeIdx \cap (LiveFds \cup ReservedIdx) = {}
        /\ \A i, j \in 1..Len(acceptFdPool_) : acceptFdPool_[i] = acceptFdPool_[j] => i = j
        /\ \A c, d \in ConnIds :
              (conn[c].st \in {"open", "closing"} /\ conn[d].st \in {"open", "closing"}
                 /\ conn[c].fd = conn[d].fd) => c = d

\* a close completion has put an index back on the free stack while another
\* Connection is open and an index is reserved for a pending accept
C39_Witness ==
    /\ fixedFiles
    /\ lastCqe.kind = "close"
    /\ lastCqe.pushed
    /\ acceptFdPool_ # <<>>
    /\ ReservedIdx # {}
    /\ \E c \in ConnIds : conn[c].st = "open"

----------------------------------------------------------------------------
(* The event mask of a connection of the readiness engine *)

\* C40: every accepted connection of the readiness engine is registered with
\* edge-triggered read interest, EPOLLIN | EPOLLET, for its whole life, also
\* after write interest has been armed and after it has been disarmed.
C40_StaysEdgeTriggered == \A c \in sockets_ : eds[c].mask = "in_et"

----------------------------------------------------------------------------
(* mkIoUring: the completion-queue size asked of the kernel *)

Max(a, b) == IF a > b THEN a ELSE b

\* the larger of the default and the configured size
CqeCountMax(sqe, cqe) == Max(CqPerSqe * sqe, cqe)

\* int cqe_count = rx_cfg.cqe_count <= 0 ? 128 * rx_cfg.sqe_count : rx_cfg.cqe_count;
\* the product stays far below 2^31 for the sizes modelled
CqeCount(sqe, cqe) == IF cqe <= 0 THEN CqPerSqe * sqe ELSE cqe

SetupInit ==
    /\ sqe_count \in 1..MaxSqe
    /\ cfg_cqe_count \in -1..MaxCfgCqe
    /\ cq_entries = 0
    /\ ParserIdle
    /\ V1Idle
    /\ V2Idle
    /\ RingIdle
    /\ ConnIdle
    /\ EPollIdle
    /\ RecvIdle
    /\ FineIdle
    /\ CqIdle
    /\ MultiIdle
    /\ StatsIdle

\* mkIoUring(rx_cfg): params.cq_entries = cqe_count, then
\* io_uring_queue_init_params(rx_cfg.sqe_count, &ring, &params)
mkIoUring ==
    /\ cq_entries = 0
    /\ cq_entries' = CqeCount(sqe_count, cfg_cqe_count)
    /\ UNCHANGED <<sqe_count, cfg_cqe_count>>
    /\ UNCHANGED <<pvars, v1vars, v2vars, rvars, cvars, evars, bvars, fvars, qvars, wvars, svars>>

SetupNext == mkIoUring

SpecSetup == SetupInit /\ [][SetupNext]_vars

\* C31 as stated: the completion-queue size requested at ring creation is
\* max(128 * sqe_count, configured cqe_count).
C31_MaxOfDefaultAndConfigured ==
    cq_entries # 0 => cq_entries = Max(CqPerSqe * sqe_count, cfg_cqe_count)

\* C31, amended: the size requested is the configured cqe_count when that is
\* positive, also when it is smaller than 128 * sqe_count, and 128 * sqe_count
\* when it is zero or negative.
C31_ConfiguredElseDefault ==
    cq_entries # 0 =>
        /\ cfg_cqe_count >= 1 => cq_entries = cfg_cqe_count
        /\ cfg_cqe_count <= 0 => cq_entries = CqPerSqe * sqe_count

\* a ring was created with a configured size below 128 * sqe_count
C31_Witness ==
    /\ cq_entries # 0
    /\ cfg_cqe_count >= 1
    /\ cfg_cqe_count < CqPerSqe * sqe_count
    /\ cq_entries = cfg_cqe_count

----------------------------------------------------------------------------
(* RxStats: doneLoop and doLog. Time is counted in whole seconds; a call less  *)
(* than a second after the last flush is a call at 0 seconds.                 *)

\* a line for every flush
EmitsAlways(requests, lastRequests, lastRps) == TRUE

\* if (requests > lastRequests_ && lastRps_): the line is printed (snprintf
\* of this format does not fail)
Emits(requests, lastRequests, lastRps) == requests > lastRequests /\ lastRps # 0

\* double rps = ((requests - lastRequests_) * 1000.0) / millis; lastRps_ = rps;
\* lastRps_ is a size_t: the conversion drops the fraction
RpsStored(requests, lastRequests, seconds) ==
    ((requests - lastRequests) * Millis) \div (Millis * seconds)

\* the constructor; countReads is cfg_.print_read_stats
StatsInit ==
    /\ sinceStats = 0
    /\ loops_ = 0
    /\ overflows_ = 0
    /\ idle_ = 0
    /\ reads_ = <<>>
    /\ countReads_ \in BOOLEAN
    /\ requestsRx_ = 0
    /\ lastRequests_ = 0
    /\ lastRps_ = 0
    /\ lastLoop = NoLoop
    /\ ParserIdle
    /\ V1Idle
    /\ V2Idle
    /\ RingIdle
    /\ ConnIdle
    /\ EPollIdle
    /\ RecvIdle
    /\ FineIdle
    /\ CqIdle
    /\ MultiIdle
    /\ SetupIdle

StatsFrame ==
    UNCHANGED <<countReads_, pvars, v1vars, v2vars, rvars, cvars, evars, bvars, fvars, qvars,
                wvars, uvars>>

\* startWait() ... doneWait(): the wait took dt seconds, which are idle time
StatsWait(dt) ==
    /\ sinceStats + dt <= MaxSeconds
    /\ sinceStats' = sinceStats + dt
    /\ idle_' = idle_ + dt
    /\ lastLoop' = NoLoop
    /\ UNCHANGED <<loops_, overflows_, reads_, requestsRx_, lastRequests_, lastRps_>>
    /\ StatsFrame

\* finishedRequests(n) in a completion handler
FinishRequests(n) ==
    /\ n >= 1
    /\ requestsRx_ + n <= MaxRequests
    /\ requestsRx_' = requestsRx_ + n
    /\ lastLoop' = NoLoop
    /\ UNCHANGED <<sinceStats, loops_, overflows_, idle_, reads_, lastRequests_, lastRps_>>
    /\ StatsFrame

\* rx_stats.doneLoop(bytesRx_, requestsRx_, reads, is_overflow), with doLog
\* when a second or more has passed since the last flush
DoneLoop(reads, is_overflow) ==
    /\ loops_ < MaxLoops
    /\ Len(reads_) < MaxLoops
    /\ LET loops1 == loops_ + 1
           over1 == overflows_ + (IF is_overflow THEN 1 ELSE 0)
           reads1 == IF countReads_ THEN Append(reads_, reads) ELSE reads_
           emits == Emits(requestsRx_, lastRequests_, lastRps_)
       IN IF sinceStats >= 1
          THEN /\ reads_' = IF emits /\ countReads_ THEN <<>> ELSE reads1
               /\ loops_' = 0
               /\ overflows_' = 0
               /\ idle_' = 0
               /\ lastRequests_' = requestsRx_
               /\ sinceStats' = 0
               /\ lastRps_' = RpsStored(requestsRx_, lastRequests_, sinceStats)
               /\ lastLoop' = [flushed |-> TRUE, emitted |-> emits,
                               grew |-> requestsRx_ > lastRequests_, rps |-> lastRps_,
                               loops |-> IF emits THEN loops1 ELSE 0,
                               samples |-> IF emits THEN Len(reads1) ELSE 0]
          ELSE /\ reads_' = reads1
               /\ loops_' = loops1
               /\ overflows_' = over1
               /\ lastLoop' = NoLoop
               /\ UNCHANGED <<idle_, lastRequests_, sinceStats, lastRps_>>
    /\ UNCHANGED requestsRx_
    /\ StatsFrame

StatsNext ==
    \/ \E dt \in 0..MaxSeconds : StatsWait(dt)
    \/ \E n \in 1..MaxRequests : FinishRequests(n)
    \/ \E reads \in 0..MaxReadsPerLoop, is_overflow \in BOOLEAN : DoneLoop(reads, is_overflow)

SpecStats == StatsInit /\ [][StatsNext]_vars

\* C32 as stated: whenever doneLoop is called a second or more after the
\* previous flush, a summary line is emitted for that period.
C32_LineEveryFlush == lastLoop.flushed => lastLoop.emitted

\* C32, amended: a doneLoop call a second or more after the previous flush
\* always flushes, and it emits the summary line exactly when requests were
\* completed since the previous flush and the rate stored by the previous
\* flush, in whole requests per second, is not zero; so not for an idle
\* period, and not for the period after one, the first period included.
C32_LineWhenBusyTwice ==
    /\ lastLoop.flushed =>
          /\ sinceStats = 0
          /\ lastRequests_ = requestsRx_
          /\ lastLoop.emitted <=> (lastLoop.grew /\ lastLoop.rps >= 1)
    /\ (lastLoop.flushed /\ ~lastLoop.grew) => lastRps_ = 0

\* a line was emitted: requests were completed in this period and in the one
\* before
C32_Witness ==
    /\ lastLoop.flushed
    /\ lastLoop.emitted
    /\ lastLoop.loops >= 2

\* C33: every flush resets all counters of the period: after it the loop
\* count, the overflow count and the idle time are zero and the list of
\* reads-per-loop samples is empty, so a summary line covers the iterations
\* since the previous flush only.
C33_FlushResetsAll ==
    /\ lastLoop.flushed =>
          /\ loops_ = 0
          /\ overflows_ = 0
          /\ idle_ = 0
          /\ reads_ = <<>>
    /\ (lastLoop.emitted /\ countReads_) => lastLoop.samples = lastLoop.loops

====
